---------------------------- MODULE Spec2Model ----------------------------
(***************************************************************************)
(* ValutaTrade Hub: the ledger use cases (register, login, buy, sell,      *)
(* get-rate) of core/usecases.py over the wallets of core/models.py, and   *)
(* the rate cache they read, which parser_service/updater.py rewrites.     *)
(*                                                                         *)
(* Every JSON document of data/ is one variable.  A CLI invocation is a    *)
(* process; a use case is cut into steps at its accesses to the shared     *)
(* files, so that two invocations interleave exactly where two operating-  *)
(* system processes can.                                                   *)
(***************************************************************************)
EXTENDS Integers, Sequences, FiniteSets, TLC

VARIABLES
    users_file,       \* data/users.json: username -> [user_id, password]
    portfolios_file,  \* data/portfolios.json: user_id -> (code -> balance)
    session_file,     \* data/session.json: [logged |-> BOOLEAN, name |-> username]
    rates_file,       \* data/rates.json: top-level key -> value
    history_file,     \* data/exchange_rates.json: sequence of history records
    now,              \* the wall clock, in seconds
    ticks,            \* how many times the clock has advanced
    ops,              \* how many CLI invocations have been started
    pc,               \* per process: the step its use case is at
    loc,              \* per process: the locals of the running use case
    last,             \* per process: what its last finished use case did
    scheduler         \* the ParserScheduler: its stop event and its thread

vars == <<users_file, portfolios_file, session_file, rates_file, history_file,
          now, ticks, ops, pc, loc, last, scheduler>>

-----------------------------------------------------------------------------
(* Bounds of the model.                                                    *)

MaxOps == 5
MaxRateOps == 3
MaxTicks == 2

Procs == {"p1", "p2"}

-----------------------------------------------------------------------------
(* decimal.Decimal: coefficient and exponent, value c * 10^e.              *)

D(c, e) == [c |-> c, e |-> e]

RECURSIVE Pow10(_)
Pow10(n) == IF n <= 0 THEN 1 ELSE 10 * Pow10(n - 1)

Abs(x) == IF x < 0 THEN -x ELSE x
Min(a, b) == IF a < b THEN a ELSE b

\* the coefficient of d written with exponent e (e <= d.e)
Coef(d, e) == d.c * Pow10(d.e - e)

DecAdd(a, b) == LET e == Min(a.e, b.e) IN D(Coef(a, e) + Coef(b, e), e)
DecSub(a, b) == LET e == Min(a.e, b.e) IN D(Coef(a, e) - Coef(b, e), e)
DecMul(a, b) == D(a.c * b.c, a.e + b.e)
DecLt(a, b) == LET e == Min(a.e, b.e) IN Coef(a, e) < Coef(b, e)
DecLe(a, b) == LET e == Min(a.e, b.e) IN Coef(a, e) <= Coef(b, e)
DecEq(a, b) == LET e == Min(a.e, b.e) IN Coef(a, e) = Coef(b, e)
DecZero == D(0, 0)

\* Decimal.normalize(): the same value without trailing zeros
RECURSIVE DecNorm(_)
DecNorm(d) ==
    IF d.c = 0 THEN DecZero
    ELSE IF d.c % 10 = 0 THEN DecNorm(D(d.c \div 10, d.e + 1))
    ELSE d

\* Decimal.quantize(10^qe, rounding=ROUND_HALF_UP): ties go away from zero
QuantizeHalfUp(d, qe) ==
    IF d.e >= qe THEN D(Coef(d, qe), qe)
    ELSE LET m == Pow10(qe - d.e)
             q == Abs(d.c) \div m
             r == Abs(d.c) % m
             up == IF 2 * r >= m THEN q + 1 ELSE q
         IN D(IF d.c < 0 THEN -up ELSE up, qe)

\* Decimal.quantize(10^qe) under the context's default ROUND_HALF_EVEN
QuantizeHalfEven(d, qe) ==
    IF d.e >= qe THEN D(Coef(d, qe), qe)
    ELSE LET m == Pow10(qe - d.e)
             q == Abs(d.c) \div m
             r == Abs(d.c) % m
             up == IF 2 * r > m \/ (2 * r = m /\ q % 2 = 1) THEN q + 1 ELSE q
         IN D(IF d.c < 0 THEN -up ELSE up, qe)

-----------------------------------------------------------------------------
(* Currency codes and their quantization (core/models.py).                 *)

DecFiatDigits == 2
DecCryptoDigits == 8
DEFAULT_TTL_SECONDS == 300

\* CURRENCY_PRECISION.get(code, _DEC_FIAT_Q), as the exponent of the quantum
QExp(code) ==
    IF code \in {"USD", "EUR", "RUB"} THEN -DecFiatDigits
    ELSE IF code \in {"USDT", "BTC", "ETH"} THEN -DecCryptoDigits
    ELSE -DecFiatDigits

\* _CCY_CODE_RE on a stripped, upper-cased code: 2 to 10 letters or digits
\* (the codes of the model are written in letters and digits only)
WellFormedCode(code) == Len(code) >= 2 /\ Len(code) <= 10

\* the registry of currencies (core/currencies.py), by code
REG == {"USD", "EUR", "RUB", "BTC", "ETH", "USDT"}

\* get_currency: the registered currency, or CurrencyNotFoundError
get_currency(code) == IF code \in REG THEN "ok" ELSE "CurrencyNotFoundError"

\* a quantize that leaves the rounding to the context (ROUND_HALF_EVEN)
quantize_half_even(code, amount) == QuantizeHalfEven(amount, QExp(code))

quantize_for_currency(code, amount) == QuantizeHalfUp(amount, QExp(code))

-----------------------------------------------------------------------------
(* Wallet (core/models.py).  A primitive returns the new balance, or the   *)
(* exception it raises and the balance left behind.                        *)

WalletResult(status, balance, available, required) ==
    [status |-> status, balance |-> balance,
     available |-> available, required |-> required]

\* Wallet.balance setter: rejects a negative value, stores the quantized one
WalletSetBalance(code, old, dec) ==
    IF DecLt(dec, DecZero)
    THEN WalletResult("ValueError", old, DecZero, DecZero)
    ELSE WalletResult("ok", quantize_for_currency(code, dec), DecZero, DecZero)

\* Wallet.deposit
WalletDeposit(code, balance, amount) ==
    IF DecLe(amount, DecZero)
    THEN WalletResult("ValueError", balance, DecZero, DecZero)
    ELSE WalletSetBalance(code, balance, DecAdd(balance, amount))

\* the same withdrawal with available and required exchanged in the error
WalletWithdrawSwapped(code, balance, amount) ==
    IF DecLe(amount, DecZero)
    THEN WalletResult("ValueError", balance, DecZero, DecZero)
    ELSE IF DecLt(balance, amount)
    THEN WalletResult("InsufficientFundsError", balance, amount, balance)
    ELSE WalletSetBalance(code, balance, DecSub(balance, amount))

\* the same withdrawal with the funds check left out and the balance field
\* written directly
WalletWithdrawUnchecked(code, balance, amount) ==
    IF DecLe(amount, DecZero)
    THEN WalletResult("ValueError", balance, DecZero, DecZero)
    ELSE WalletResult("ok", DecSub(balance, amount), DecZero, DecZero)

\* Wallet.withdraw
WalletWithdraw(code, balance, amount) ==
    IF DecLe(amount, DecZero)
    THEN WalletResult("ValueError", balance, DecZero, DecZero)
    ELSE IF DecLt(balance, amount)
    THEN WalletResult("InsufficientFundsError", balance, balance, amount)
    ELSE WalletSetBalance(code, balance, DecSub(balance, amount))

\* Wallet(code): the balance setter applied to Decimal("0")
WalletNew(code) == WalletSetBalance(code, DecZero, DecZero).balance

-----------------------------------------------------------------------------
(* Documents and their (de)serialization (core/usecases.py).               *)

NoPortfolios == [u \in {} |-> [c \in {} |-> DecZero]]
NoWallets == [c \in {} |-> DecZero]
NoUsers == [n \in {} |-> [user_id |-> 0, password |-> ""]]

\* _load_portfolios: Portfolio.from_dict builds each Wallet through the
\* balance setter, which quantizes what the file holds
load_portfolios(file) ==
    [u \in DOMAIN file |->
        [c \in DOMAIN file[u] |->
            WalletSetBalance(c, DecZero, file[u][c]).balance]]

\* _save_portfolios: Portfolio.to_dict(compact=True) writes str(balance),
\* which keeps the coefficient and the exponent
save_portfolios(portfolios) == portfolios

\* _next_user_id
RECURSIVE MaxId(_, _)
MaxId(users, names) ==
    IF names = {} THEN 0
    ELSE LET n == CHOOSE x \in names : TRUE
             rest == MaxId(users, names \ {n})
         IN IF users[n].user_id > rest THEN users[n].user_id ELSE rest

next_user_id(users) ==
    IF DOMAIN users = {} THEN 1 ELSE MaxId(users, DOMAIN users) + 1

\* _pair_key
pair_key(frm, to) == frm \o "_" \o to

-----------------------------------------------------------------------------
(* Decimal("1") / rate.  Python divides under getcontext().prec = 28; the  *)
(* model's integers cannot hold 28 digits, so the quotient is rounded      *)
(* (half-even, the context's rounding) to DivDigits significant digits.    *)
(* An exact quotient of fewer digits is returned exactly, as Python does.  *)

DivDigits == 4
MaxPow == 8

RECURSIVE ExactK(_, _)
ExactK(c, k) ==
    IF k > MaxPow \/ Pow10(k) \div c >= Pow10(DivDigits) THEN -1
    ELSE IF Pow10(k) % c = 0 THEN k
    ELSE ExactK(c, k + 1)

RECURSIVE RoundK(_, _)
RoundK(c, k) ==
    IF k >= MaxPow \/ Pow10(k) \div c >= Pow10(DivDigits - 1) THEN k
    ELSE RoundK(c, k + 1)

\* 1 / d for d > 0.  The digits of the quotient do not depend on trailing
\* zeros of the divisor's coefficient, so the divisor is normalized first.
DecInv(d) ==
    LET n == DecNorm(d)
        ek == ExactK(n.c, 0)
    IN  IF ek >= 0 THEN D(Pow10(ek) \div n.c, -ek - n.e)
        ELSE LET k == RoundK(n.c, 0)
                 q == Pow10(k) \div n.c
                 r == Pow10(k) % n.c
                 up == IF 2 * r > n.c \/ (2 * r = n.c /\ q % 2 = 1)
                       THEN q + 1 ELSE q
             IN  IF up >= Pow10(DivDigits)
                 THEN D(up \div 10, -k - n.e + 1)
                 ELSE D(up, -k - n.e)

-----------------------------------------------------------------------------
(* The rate cache as core/usecases.py reads it.                            *)

\* a timestamp string: seconds since the model's epoch, and whether it is
\* written with the "Z" suffix (_iso_now_z) or naive (_iso_now)
Stamp(t, z) == [t |-> t, z |-> z]

\* a top-level pair entry of rates.json
Quote(rate, ts, source) == [rate |-> rate, updated_at |-> ts, source |-> source]

\* a freshness test that excludes the boundary
is_fresh_strict(ts, ttl_seconds, clock) ==
    IF ts.z THEN {"False", "TypeError"}
    ELSE {IF clock - ts.t < ttl_seconds THEN "True" ELSE "False"}

\* _is_fresh.  datetime.fromisoformat rejects a "Z" suffix before Python
\* 3.11 (the except branch returns False) and from 3.11 on parses it as an
\* aware datetime, whose subtraction from the naive now raises TypeError:
\* both outcomes are possible for such a stamp.
is_fresh(ts, ttl_seconds, clock) ==
    IF ts.z THEN {"False", "TypeError"}
    ELSE {IF clock - ts.t <= ttl_seconds THEN "True" ELSE "False"}

RateResult(status, rate, updated) ==
    [status |-> status, rate |-> rate, updated |-> updated]

NoStamp == Stamp(0, FALSE)
RateMiss(status) == RateResult(status, DecZero, NoStamp)

\* an entry counted as fresh whenever it is there
EntryPresent(rates, key, ttl_seconds, clock) ==
    IF key \in DOMAIN rates THEN {"True"} ELSE {"absent"}

\* the entry under a key, if the key is a top-level key of the document
EntryFresh(rates, key, ttl_seconds, clock) ==
    IF key \in DOMAIN rates
    THEN is_fresh(rates[key].updated_at, ttl_seconds, clock)
    ELSE {"absent"}

\* the second half handing back the inverse entry's rate as it is stored
inverse_rate_as_stored(rates, frm, to, ttl_seconds, clock) ==
    LET inv_key == pair_key(to, frm) IN
    { IF i = "True"
      THEN RateResult("ok", rates[inv_key].rate, rates[inv_key].updated_at)
      ELSE IF i = "TypeError" THEN RateMiss("TypeError")
      ELSE RateMiss("CurrencyNotFoundError")
      : i \in EntryFresh(rates, inv_key, ttl_seconds, clock) }

\* the second half with the division's trap switched off: 1 / 0 is handed
\* back as a rate
inverse_rate_untrapped(rates, frm, to, ttl_seconds, clock) ==
    LET inv_key == pair_key(to, frm) IN
    { IF i = "True"
      THEN IF rates[inv_key].rate.c = 0
           THEN RateResult("ok", DecZero, rates[inv_key].updated_at)
           ELSE RateResult("ok", DecInv(rates[inv_key].rate),
                           rates[inv_key].updated_at)
      ELSE IF i = "TypeError" THEN RateMiss("TypeError")
      ELSE RateMiss("CurrencyNotFoundError")
      : i \in EntryFresh(rates, inv_key, ttl_seconds, clock) }

\* _get_rate_from_cache, its second half: the inverse entry, consulted when
\* the direct one is absent or not fresh
inverse_rate_from_cache(rates, frm, to, ttl_seconds, clock) ==
    LET inv_key == pair_key(to, frm) IN
    { IF i = "True"
      THEN IF rates[inv_key].rate.c = 0
           THEN RateMiss("DivisionByZero")
           ELSE RateResult("ok", DecInv(rates[inv_key].rate),
                           rates[inv_key].updated_at)
      ELSE IF i = "TypeError" THEN RateMiss("TypeError")
      ELSE RateMiss("CurrencyNotFoundError")
      : i \in EntryFresh(rates, inv_key, ttl_seconds, clock) }

\* a lookup that consults the inverse entry before the direct one
get_rate_inverse_first(rates, frm, to, ttl_seconds, clock) ==
    LET direct_key == pair_key(frm, to)
        inv == inverse_rate_from_cache(rates, frm, to, ttl_seconds, clock)
    IN  UNION {
          IF r.status # "CurrencyNotFoundError" THEN {r}
          ELSE { IF d = "True"
                 THEN RateResult("ok", rates[direct_key].rate,
                                 rates[direct_key].updated_at)
                 ELSE IF d = "TypeError" THEN RateMiss("TypeError")
                 ELSE RateMiss("CurrencyNotFoundError")
                 : d \in EntryFresh(rates, direct_key, ttl_seconds, clock) }
          : r \in inv }

\* _get_rate_from_cache: the set of outcomes (one, unless a stamp carries "Z")
get_rate_from_cache(rates, frm, to, ttl_seconds, clock) ==
    LET direct_key == pair_key(frm, to) IN
    UNION {
      IF d = "True"
      THEN {RateResult("ok", rates[direct_key].rate, rates[direct_key].updated_at)}
      ELSE IF d = "TypeError" THEN {RateMiss("TypeError")}
      ELSE inverse_rate_from_cache(rates, frm, to, ttl_seconds, clock)
      : d \in EntryFresh(rates, direct_key, ttl_seconds, clock) }

-----------------------------------------------------------------------------
(* Processes: the locals of a running use case and the record of the last  *)
(* finished one (its arguments, what it read and wrote, what it returned   *)
(* or raised).                                                             *)

NoPairs == [k \in {} |-> Quote(DecZero, NoStamp, "")]

NoSession == [logged |-> FALSE, name |-> ""]

NoLoc ==
    [uid |-> 0, name |-> "", password |-> "", currency |-> "", amount |-> DecZero,
     base |-> "", users |-> NoUsers, portfolios |-> NoPortfolios,
     loaded |-> NoPortfolios, before |-> DecZero, after |-> DecZero,
     clients |-> <<>>, merged_pairs |-> NoPairs, history_records |-> <<>>,
     errors |-> <<>>, ok_sources |-> 0, last_refresh |-> NoStamp,
     existing |-> <<>>, selected |-> <<>>, fetched |-> <<>>,
     replaced |-> [source |-> "none"]]

NoLast ==
    [op |-> "none", status |-> "none", uid |-> 0, name |-> "", currency |-> "",
     amount |-> DecZero, base |-> "", before |-> DecZero, after |-> DecZero,
     rate |-> RateMiss("none"), estimated |-> DecZero,
     available |-> DecZero, required |-> DecZero,
     loaded |-> NoPortfolios, saved |-> NoPortfolios, wrote |-> FALSE,
     ok_sources |-> 0, errors |-> <<>>, pairs |-> NoPairs,
     last_refresh |-> NoStamp, at |-> 0, cache |-> [source |-> "none"],
     selected |-> <<>>, fetched |-> <<>>, ttl |-> 0,
     inverse |-> [na |-> TRUE, value |-> DecZero],
     keys |-> {}, printed |-> "none", rows |-> 0]

\* ParserScheduler.__init__: the event is clear and there is no thread
NoScheduler ==
    [stop_event |-> FALSE, thread |-> "none", iterations |-> 0, deadline |-> 0]

Idle(p) == pc[p] = "idle" /\ ops < MaxOps

Goto(p, label, locals) ==
    /\ pc' = [pc EXCEPT ![p] = label]
    /\ loc' = [loc EXCEPT ![p] = locals]
    /\ last' = last

Finish(p, rec) ==
    /\ pc' = [pc EXCEPT ![p] = "idle"]
    /\ loc' = [loc EXCEPT ![p] = NoLoc]
    /\ last' = [last EXCEPT ![p] = rec]

\* current_user: the logged-in user, or PermissionError; a session naming a
\* user the users file does not hold is reset
current_user(users, session) ==
    IF ~session.logged
    THEN [status |-> "PermissionError", uid |-> 0, name |-> "", reset |-> FALSE]
    ELSE IF session.name \notin DOMAIN users
    THEN [status |-> "PermissionError", uid |-> 0, name |-> "", reset |-> TRUE]
    ELSE [status |-> "ok", uid |-> users[session.name].user_id,
          name |-> session.name, reset |-> FALSE]

\* portfolios.get(user_id) or Portfolio(user_id), as its wallets
WalletsOf(portfolios, uid) ==
    IF uid \in DOMAIN portfolios THEN portfolios[uid] ELSE NoWallets

\* a dict with one key set
Put(f, k, v) == [x \in DOMAIN f \cup {k} |-> IF x = k THEN v ELSE f[x]]

\* the balance a portfolio document shows for a code (zero without a wallet)
BalanceIn(portfolios, uid, code) ==
    IF uid \in DOMAIN portfolios /\ code \in DOMAIN portfolios[uid]
    THEN portfolios[uid][code]
    ELSE D(0, QExp(code))

\* (amount * rate).quantize(Decimal("0.01")): the context's ROUND_HALF_EVEN
Estimated(amount, r) ==
    IF r.status = "ok" THEN QuantizeHalfEven(DecMul(amount, r.rate), -2) ELSE DecZero

-----------------------------------------------------------------------------
(* The clock.                                                              *)

Tick(d) ==
    /\ ticks < MaxTicks
    /\ now' = now + d
    /\ ticks' = ticks + 1
    /\ UNCHANGED <<scheduler, users_file, portfolios_file, session_file, rates_file,
                   history_file, ops, pc, loc, last>>

-----------------------------------------------------------------------------
(* register_user, in four steps: read users.json, write it, read           *)
(* portfolios.json, write it.                                              *)

\* str.strip, for the blank
RECURSIVE lstrip(_)
lstrip(s) ==
    IF Len(s) > 0 /\ SubSeq(s, 1, 1) = " " THEN lstrip(SubSeq(s, 2, Len(s))) ELSE s

RECURSIVE rstrip(_)
rstrip(s) ==
    IF Len(s) > 0 /\ SubSeq(s, Len(s), Len(s)) = " "
    THEN rstrip(SubSeq(s, 1, Len(s) - 1))
    ELSE s

strip(s) == rstrip(lstrip(s))

RegisterLoadUsers(p, name, password) ==
    /\ Idle(p)
    /\ ops' = ops + 1
    /\ LET username == strip(name)
           rec == [NoLast EXCEPT !.op = "register", !.name = username]
           users == users_file
           uid == next_user_id(users)
       IN  IF username = "" \/ Len(password) < 4
           THEN Finish(p, [rec EXCEPT !.status = "ValueError"])
           ELSE IF username \in DOMAIN users
           THEN Finish(p, [rec EXCEPT !.status = "ValueError"])
           ELSE Goto(p, "reg_save_users",
                     [NoLoc EXCEPT !.uid = uid, !.name = username,
                        !.users = Put(users, username,
                                      [user_id |-> uid, password |-> password])])
    /\ UNCHANGED <<scheduler, users_file, portfolios_file, session_file, rates_file,
                   history_file, now, ticks>>

RegisterSaveUsers(p) ==
    /\ pc[p] = "reg_save_users"
    /\ users_file' = loc[p].users
    /\ Goto(p, "reg_load_portfolios", loc[p])
    /\ UNCHANGED <<scheduler, portfolios_file, session_file, rates_file, history_file,
                   now, ticks, ops>>

RegisterLoadPortfolios(p) ==
    /\ pc[p] = "reg_load_portfolios"
    /\ LET portfolios == load_portfolios(portfolios_file)
           rec == [NoLast EXCEPT !.op = "register", !.name = loc[p].name,
                      !.uid = loc[p].uid, !.loaded = portfolios_file,
                      !.saved = portfolios_file]
       IN  IF loc[p].uid \notin DOMAIN portfolios
           THEN Goto(p, "reg_save_portfolios",
                     [loc[p] EXCEPT !.loaded = portfolios_file,
                        !.portfolios = Put(portfolios, loc[p].uid, NoWallets)])
           ELSE Finish(p, [rec EXCEPT !.status = "ok"])
    /\ UNCHANGED <<scheduler, users_file, portfolios_file, session_file, rates_file,
                   history_file, now, ticks, ops>>

RegisterSavePortfolios(p) ==
    /\ pc[p] = "reg_save_portfolios"
    /\ portfolios_file' = save_portfolios(loc[p].portfolios)
    /\ Finish(p, [NoLast EXCEPT !.op = "register", !.status = "ok",
                     !.name = loc[p].name, !.uid = loc[p].uid,
                     !.loaded = loc[p].loaded,
                     !.saved = save_portfolios(loc[p].portfolios),
                     !.wrote = TRUE])
    /\ UNCHANGED <<scheduler, users_file, session_file, rates_file, history_file,
                   now, ticks, ops>>

-----------------------------------------------------------------------------
(* login_user                                                              *)

Login(p, username, password) ==
    /\ Idle(p)
    /\ ops' = ops + 1
    /\ LET rec == [NoLast EXCEPT !.op = "login", !.name = username]
           users == users_file
       IN  IF username \notin DOMAIN users
           THEN session_file' = session_file
                /\ Finish(p, [rec EXCEPT !.status = "ValueError"])
           ELSE IF users[username].password # password
           THEN session_file' = session_file
                /\ Finish(p, [rec EXCEPT !.status = "ValueError"])
           ELSE session_file' = [logged |-> TRUE, name |-> username]
                /\ Finish(p, [rec EXCEPT !.status = "ok",
                                 !.uid = users[username].user_id])
    /\ UNCHANGED <<scheduler, users_file, portfolios_file, rates_file, history_file,
                   now, ticks>>

-----------------------------------------------------------------------------
(* buy_currency, in two steps.  BuyLoad: the argument checks, current_user *)
(* and _load_portfolios, then add_currency and deposit on the in-memory    *)
(* portfolio.  BuySave: the rate lookup and _save_portfolios.              *)

BuyLoad(p, currency, amount, base) ==
    /\ Idle(p)
    /\ ops' = ops + 1
    /\ LET rec == [NoLast EXCEPT !.op = "buy", !.currency = currency,
                      !.amount = amount, !.base = base]
           cu == current_user(users_file, session_file)
           portfolios == load_portfolios(portfolios_file)
           wallets == WalletsOf(portfolios, cu.uid)
           before == IF currency \in DOMAIN wallets
                     THEN wallets[currency] ELSE WalletNew(currency)
           dep == WalletDeposit(currency, before, amount)
       IN  IF DecLe(amount, DecZero) \/ currency = ""
           THEN session_file' = session_file
                /\ Finish(p, [rec EXCEPT !.status = "ValueError"])
           ELSE IF cu.status # "ok"
           THEN session_file' = (IF cu.reset THEN NoSession ELSE session_file)
                /\ Finish(p, [rec EXCEPT !.status = cu.status])
           ELSE IF ~WellFormedCode(currency)
           THEN session_file' = session_file
                /\ Finish(p, [rec EXCEPT !.status = "ValueError", !.uid = cu.uid,
                                 !.loaded = portfolios_file,
                                 !.saved = portfolios_file])
           ELSE IF dep.status # "ok"
           THEN session_file' = session_file
                /\ Finish(p, [rec EXCEPT !.status = dep.status, !.uid = cu.uid,
                                 !.loaded = portfolios_file,
                                 !.saved = portfolios_file])
           ELSE session_file' = session_file
                /\ Goto(p, "buy_loaded",
                        [NoLoc EXCEPT !.uid = cu.uid, !.name = cu.name,
                           !.currency = currency, !.amount = amount,
                           !.base = base, !.loaded = portfolios_file,
                           !.before = before, !.after = dep.balance,
                           !.portfolios =
                               Put(portfolios, cu.uid,
                                   Put(wallets, currency, dep.balance))])
    /\ UNCHANGED <<scheduler, users_file, portfolios_file, rates_file, history_file,
                   now, ticks>>

\* the keys of the dict buy_currency and sell_currency return
ResultKeys(op) ==
    {"currency", "amount", "before", "after", "rate_used", "base"}
        \cup (IF op = "buy" THEN {"estimated_cost_in_base"}
              ELSE {"estimated_revenue_in_base"})

\* the keys of the result the CLI's buy and sell branches read
CliReads(op) ==
    {"portfolio_changes", "amount", "currency", "rate_used"}
        \cup (IF op = "buy" THEN {"estimated_cost_in_base", "base"}
              ELSE {"estimated_revenue_in_base", "base"})

\* main, after the use case has returned: the message is built from the
\* result; a key the result does not hold raises KeyError
cli_print(op, keys) == IF CliReads(op) \subseteq keys THEN "ok" ELSE "KeyError"

\* the record of a trade that reached its rate lookup
TradeRecord(p, op, r, saved, wrote) ==
    [NoLast EXCEPT !.op = op, !.uid = loc[p].uid, !.name = loc[p].name,
        !.status = IF r.status \in {"ok", "CurrencyNotFoundError"}
                   THEN "ok" ELSE r.status,
        !.currency = loc[p].currency, !.amount = loc[p].amount,
        !.base = loc[p].base, !.before = loc[p].before, !.after = loc[p].after,
        !.rate = r, !.estimated = Estimated(loc[p].amount, r),
        !.at = now, !.cache = rates_file, !.ttl = DEFAULT_TTL_SECONDS,
        !.loaded = loc[p].loaded, !.saved = saved, !.wrote = wrote,
        !.keys = IF wrote THEN ResultKeys(op) ELSE {},
        !.printed = IF wrote THEN cli_print(op, ResultKeys(op)) ELSE "none"]

\* the tail shared by buy_currency and sell_currency: CurrencyNotFoundError
\* from the lookup is swallowed, any other exception leaves before the save
TradeSave(p, op) ==
    \E r \in get_rate_from_cache(rates_file, loc[p].currency, loc[p].base,
                                 DEFAULT_TTL_SECONDS, now) :
        IF r.status \in {"ok", "CurrencyNotFoundError"}
        THEN /\ portfolios_file' = save_portfolios(loc[p].portfolios)
             /\ Finish(p, TradeRecord(p, op, r,
                                      save_portfolios(loc[p].portfolios), TRUE))
        ELSE /\ portfolios_file' = portfolios_file
             /\ Finish(p, TradeRecord(p, op, r, loc[p].loaded, FALSE))

BuySave(p) ==
    /\ pc[p] = "buy_loaded"
    /\ TradeSave(p, "buy")
    /\ UNCHANGED <<scheduler, users_file, session_file, rates_file, history_file,
                   now, ticks, ops>>

-----------------------------------------------------------------------------
(* sell_currency, in two steps.  SellLoad: the argument checks,            *)
(* current_user and _load_portfolios, then get_wallet and withdraw on the  *)
(* in-memory portfolio.  SellSave: the rate lookup and _save_portfolios.   *)

\* a lookup of the wallet that creates it when it is not there, as
\* add_currency does
has_wallet_created(wallets, code) == TRUE

\* portfolio.get_wallet(currency) is not None
has_wallet(wallets, code) == code \in DOMAIN wallets

SellLoad(p, currency, amount, base) ==
    /\ Idle(p)
    /\ ops' = ops + 1
    /\ LET rec == [NoLast EXCEPT !.op = "sell", !.currency = currency,
                      !.amount = amount, !.base = base]
           cu == current_user(users_file, session_file)
           portfolios == load_portfolios(portfolios_file)
           wallets == WalletsOf(portfolios, cu.uid)
           before == IF currency \in DOMAIN wallets
                     THEN wallets[currency] ELSE WalletNew(currency)
           wd == WalletWithdraw(currency, before, amount)
           seen == [rec EXCEPT !.uid = cu.uid, !.loaded = portfolios_file,
                       !.saved = portfolios_file]
       IN  IF DecLe(amount, DecZero) \/ currency = ""
           THEN session_file' = session_file
                /\ Finish(p, [rec EXCEPT !.status = "ValueError"])
           ELSE IF cu.status # "ok"
           THEN session_file' = (IF cu.reset THEN NoSession ELSE session_file)
                /\ Finish(p, [rec EXCEPT !.status = cu.status])
           ELSE IF ~WellFormedCode(currency) \/ ~has_wallet(wallets, currency)
           THEN session_file' = session_file
                /\ Finish(p, [seen EXCEPT !.status = "ValueError"])
           ELSE IF wd.status # "ok"
           THEN session_file' = session_file
                /\ Finish(p, [seen EXCEPT !.status = wd.status,
                                 !.before = before, !.after = wd.balance,
                                 !.available = wd.available,
                                 !.required = wd.required])
           ELSE session_file' = session_file
                /\ Goto(p, "sell_loaded",
                        [NoLoc EXCEPT !.uid = cu.uid, !.name = cu.name,
                           !.currency = currency, !.amount = amount,
                           !.base = base, !.loaded = portfolios_file,
                           !.before = before, !.after = wd.balance,
                           !.portfolios =
                               Put(portfolios, cu.uid,
                                   Put(wallets, currency, wd.balance))])
    /\ UNCHANGED <<scheduler, users_file, portfolios_file, rates_file, history_file,
                   now, ticks>>

SellSave(p) ==
    /\ pc[p] = "sell_loaded"
    /\ TradeSave(p, "sell")
    /\ UNCHANGED <<scheduler, users_file, session_file, rates_file, history_file,
                   now, ticks, ops>>

-----------------------------------------------------------------------------
(* get_rate                                                                *)

\* the "inverse" get_rate returns: 1 / rate, or "N/A" when the division raises
InverseOf(r) ==
    IF r.status # "ok" \/ r.rate.c = 0
    THEN [na |-> TRUE, value |-> DecZero]
    ELSE [na |-> FALSE, value |-> DecInv(r.rate)]

GetRate(p, frm, to, ttl_seconds) ==
    /\ Idle(p)
    /\ ops' = ops + 1
    /\ LET rec == [NoLast EXCEPT !.op = "get_rate", !.currency = frm, !.base = to,
                      !.ttl = ttl_seconds]
       IN  IF frm = "" \/ to = ""
           THEN Finish(p, [rec EXCEPT !.status = "ValueError"])
           ELSE \E r \in get_rate_from_cache(rates_file, frm, to, ttl_seconds, now) :
                    Finish(p, [rec EXCEPT !.status = r.status, !.rate = r,
                                  !.at = now, !.cache = rates_file,
                                  !.inverse = InverseOf(r)])
    /\ UNCHANGED <<scheduler, users_file, portfolios_file, session_file, rates_file,
                   history_file, now, ticks>>

-----------------------------------------------------------------------------
(* show_portfolio                                                          *)

\* key.split("_", 1) has two parts
RECURSIVE HasSeparator(_)
HasSeparator(key) ==
    IF Len(key) = 0 THEN FALSE
    ELSE SubSeq(key, 1, 1) = "_" \/ HasSeparator(SubSeq(key, 2, Len(key)))

\* the loop of show_portfolio over the top-level keys of rates.json: a key
\* other than "source" and "last_refresh" is split at "_" and its entry is
\* tested for freshness.  The outcomes: the exception that leaves the loop,
\* or the keys that went into rate_cache.
rate_cache_of(rates, ttl_seconds, clock) ==
    LET keys == DOMAIN rates \ {"source", "last_refresh"}
        unsplit == { k \in keys : ~HasSeparator(k) }
        split == keys \ unsplit
        aware == { k \in split :
                     "TypeError" \in is_fresh(rates[k].updated_at, ttl_seconds, clock) }
        fresh == { k \in split :
                     "True" \in is_fresh(rates[k].updated_at, ttl_seconds, clock) }
    IN  (IF unsplit # {} THEN {[status |-> "ValueError", fresh |-> {}]} ELSE {})
        \cup (IF aware # {} THEN {[status |-> "TypeError", fresh |-> {}]} ELSE {})
        \cup (IF unsplit = {} THEN {[status |-> "ok", fresh |-> fresh]} ELSE {})

\* the wallets get_total_value needs a rate for
Valued(wallets, base) == { c \in DOMAIN wallets : wallets[c].c # 0 /\ c # base }

RECURSIVE SumInBase(_, _, _, _)
SumInBase(wallets, codes, base, rates) ==
    IF codes = {} THEN DecZero
    ELSE LET c == CHOOSE x \in codes : TRUE
             rate == IF c = base THEN D(1, 0) ELSE rates[pair_key(c, base)].rate
         IN  DecAdd(DecMul(DecNorm(wallets[c]), DecNorm(rate)),
                    SumInBase(wallets, codes \ {c}, base, rates))

\* Portfolio.get_total_value over rate_cache (None when it is empty): a
\* wallet with a balance and no rate in the cache raises
get_total_value(wallets, base, fresh, rates) ==
    IF \E c \in Valued(wallets, base) : pair_key(c, base) \notin fresh
    THEN [status |-> "CurrencyNotFoundError", total |-> DecZero]
    ELSE [status |-> "ok",
          total |-> quantize_for_currency(
                        base,
                        SumInBase(wallets,
                                  { c \in DOMAIN wallets : wallets[c].c # 0 },
                                  base, rates))]

\* the loop over the wallets that builds the rows: CurrencyNotFoundError of
\* the lookup gives "N/A", any other exception leaves show_portfolio
rows_of(wallets, base, rates, ttl_seconds, clock) ==
    LET codes == DOMAIN wallets \ {base}
        looked(c) == get_rate_from_cache(rates, c, base, ttl_seconds, clock)
        passes(r) == r.status \in {"ok", "CurrencyNotFoundError"}
    IN  { r.status : r \in { x \in UNION { looked(c) : c \in codes } : ~passes(x) } }
        \cup (IF \A c \in codes : \E r \in looked(c) : passes(r)
              THEN {"ok"} ELSE {})

ShowPortfolio(p, base, ttl_seconds) ==
    /\ Idle(p)
    /\ ops' = ops + 1
    /\ LET rec == [NoLast EXCEPT !.op = "show_portfolio", !.base = base,
                      !.ttl = ttl_seconds, !.at = now, !.cache = rates_file]
           cu == current_user(users_file, session_file)
           portfolios == load_portfolios(portfolios_file)
           wallets == WalletsOf(portfolios, cu.uid)
           saved == IF cu.uid \in DOMAIN portfolios THEN portfolios_file
                    ELSE save_portfolios(Put(portfolios, cu.uid, NoWallets))
           seen == [rec EXCEPT !.uid = cu.uid, !.name = cu.name,
                       !.loaded = portfolios_file, !.saved = saved,
                       !.wrote = (cu.uid \notin DOMAIN portfolios)]
       IN  IF cu.status # "ok"
           THEN /\ session_file' = (IF cu.reset THEN NoSession ELSE session_file)
                /\ portfolios_file' = portfolios_file
                /\ Finish(p, [rec EXCEPT !.status = cu.status])
           ELSE /\ session_file' = session_file
                /\ portfolios_file' = saved
                /\ \E cache \in rate_cache_of(rates_file, ttl_seconds, now) :
                       LET total == get_total_value(wallets, base, cache.fresh,
                                                    rates_file)
                       IN  IF cache.status # "ok"
                           THEN Finish(p, [seen EXCEPT !.status = cache.status])
                           ELSE IF total.status # "ok"
                           THEN Finish(p, [seen EXCEPT !.status = total.status])
                           ELSE \E st \in rows_of(wallets, base, rates_file,
                                                  ttl_seconds, now) :
                                    Finish(p, [seen EXCEPT
                                                 !.status = st,
                                                 !.estimated = total.total,
                                                 !.rows = IF st = "ok"
                                                          THEN Cardinality(DOMAIN wallets)
                                                          ELSE 0])
    /\ UNCHANGED <<scheduler, users_file, rates_file, history_file, now, ticks>>

-----------------------------------------------------------------------------
(* The quote sources (parser_service/api_clients.py, config.py).  A        *)
(* response is the upstream answer: whether the request succeeded,         *)
(* whether the JSON body is an object, and the numeric rate it holds for   *)
(* each code it holds one for.                                             *)

BASE_FIAT_CURRENCY == "USD"
CRYPTO_ID_MAP == <<"BTC", "ETH", "SOL">>
FIAT_CURRENCIES == <<"EUR", "GBP", "RUB">>

SourceName(client) ==
    IF client = "coingecko" THEN "CoinGecko" ELSE "ExchangeRate-API"

CoveredCodes(client) ==
    IF client = "coingecko" THEN CRYPTO_ID_MAP ELSE FIAT_CURRENCIES

HistoryRecord(key, rate, ts, source) ==
    [id |-> key, rate |-> rate, timestamp |-> ts, source |-> source]

\* the loop of fetch over the configured codes: a code whose rate is not a
\* number in the answer is skipped
RECURSIVE FetchLoop(_, _, _, _)
FetchLoop(codes, rates, ts, source) ==
    IF codes = <<>> THEN [pairs |-> NoPairs, history |-> <<>>]
    ELSE LET code == Head(codes)
             rest == FetchLoop(Tail(codes), rates, ts, source)
             key == pair_key(code, BASE_FIAT_CURRENCY)
         IN  IF code \notin DOMAIN rates THEN rest
             ELSE [pairs |-> Put(rest.pairs, key, Quote(rates[code], ts, source)),
                   history |-> <<HistoryRecord(key, rates[code], ts, source)>>
                                 \o rest.history]

\* a fetch whose stamps run against the clock
FetchBackdated(client, response, clock) ==
    IF ~response.ok
    THEN [status |-> "ApiRequestError", pairs |-> NoPairs, history |-> <<>>]
    ELSE IF ~response.object
    THEN [status |-> "AttributeError", pairs |-> NoPairs, history |-> <<>>]
    ELSE LET got == FetchLoop(CoveredCodes(client), response.rates,
                              Stamp(0 - clock, TRUE), SourceName(client))
         IN  [status |-> "ok", pairs |-> got.pairs, history |-> got.history]

\* CoinGeckoClient.fetch / ExchangeRateApiClient.fetch at time clock.  A
\* body that is valid JSON but not an object passes resp.json() and fails at
\* data.get with AttributeError, which fetch does not wrap.
Fetch(client, response, clock) ==
    IF ~response.ok
    THEN [status |-> "ApiRequestError", pairs |-> NoPairs, history |-> <<>>]
    ELSE IF ~response.object
    THEN [status |-> "AttributeError", pairs |-> NoPairs, history |-> <<>>]
    ELSE LET got == FetchLoop(CoveredCodes(client), response.rates,
                              Stamp(clock, TRUE), SourceName(client))
         IN  [status |-> "ok", pairs |-> got.pairs, history |-> got.history]

-----------------------------------------------------------------------------
(* RatesUpdater.run_update (parser_service/updater.py), in steps: one per  *)
(* client fetched, the write of rates.json, the read of the history file,  *)
(* the write of the history file.                                          *)

\* _make_clients
make_clients(only) ==
    IF only = "" THEN <<"coingecko", "exchangerate">>
    ELSE IF only = "coingecko" THEN <<"coingecko">>
    ELSE IF only = "exchangerate" THEN <<"exchangerate">>
    ELSE <<>>

\* a comparison that also holds of equal strings
StampGe(a, b) == a.t >= b.t

\* the comparison of two updated_at strings of the same format
StampGt(a, b) == a.t > b.t

\* the merge loop: a key seen before is replaced only by a later stamp
RECURSIVE MergeKeys(_, _, _)
MergeKeys(merged, pairs, keys) ==
    IF keys = {} THEN merged
    ELSE LET k == CHOOSE x \in keys : TRUE
             next == IF k \notin DOMAIN merged THEN Put(merged, k, pairs[k])
                     ELSE IF StampGt(pairs[k].updated_at, merged[k].updated_at)
                     THEN Put(merged, k, pairs[k])
                     ELSE merged
         IN  MergeKeys(next, pairs, keys \ {k})

MergePairs(merged, pairs) == MergeKeys(merged, pairs, DOMAIN pairs)

\* a status that tells success from failure only
UpdateStatusTwoWay(ok_sources, errors) ==
    IF ok_sources > 0 THEN "success" ELSE "failed"

UpdateStatus(ok_sources, errors) ==
    IF ok_sources > 0 /\ errors = <<>> THEN "success"
    ELSE IF ok_sources > 0 THEN "partial"
    ELSE "failed"

UpdateStart(p, only) ==
    /\ Idle(p)
    /\ ops' = ops + 1
    /\ IF only # "" /\ make_clients(only) = <<>>
       THEN Finish(p, [NoLast EXCEPT !.op = "update", !.status = "ValueError"])
       ELSE Goto(p, "upd_fetch", [NoLoc EXCEPT !.clients = make_clients(only),
                                     !.selected = make_clients(only)])
    /\ UNCHANGED <<scheduler, users_file, portfolios_file, session_file, rates_file,
                   history_file, now, ticks>>

\* what one call of fetch did: the source, how it ended, the keys it returned
Fetched(client, got) ==
    [client |-> client, source |-> SourceName(client), status |-> got.status,
     keys |-> DOMAIN got.pairs]

\* one iteration of the loop over the clients.  Only ApiRequestError is
\* caught; any other exception of fetch leaves run_update at once.
UpdateFetch(p, response) ==
    /\ pc[p] = "upd_fetch"
    /\ loc[p].clients # <<>>
    /\ LET client == Head(loc[p].clients)
           got == Fetch(client, response, now)
           fetched == Append(loc[p].fetched, Fetched(client, got))
       IN  IF got.status = "ok"
           THEN Goto(p, "upd_fetch",
                     [loc[p] EXCEPT !.clients = Tail(loc[p].clients),
                        !.fetched = fetched,
                        !.ok_sources = loc[p].ok_sources + 1,
                        !.merged_pairs = MergePairs(loc[p].merged_pairs, got.pairs),
                        !.history_records = loc[p].history_records \o got.history])
           ELSE IF got.status = "ApiRequestError"
           THEN Goto(p, "upd_fetch",
                     [loc[p] EXCEPT !.clients = Tail(loc[p].clients),
                        !.fetched = fetched,
                        !.errors = Append(loc[p].errors, SourceName(client))])
           ELSE Finish(p, [NoLast EXCEPT !.op = "update",
                              !.status = got.status,
                              !.ok_sources = loc[p].ok_sources,
                              !.errors = loc[p].errors,
                              !.pairs = loc[p].merged_pairs,
                              !.selected = loc[p].selected,
                              !.fetched = fetched])
    /\ UNCHANGED <<scheduler, users_file, portfolios_file, session_file, rates_file,
                   history_file, now, ticks, ops>>

\* the document run_update writes to rates.json
CachePayload(merged_pairs, last_refresh) ==
    [pairs |-> merged_pairs, last_refresh |-> last_refresh]

\* a write of what has been merged so far, whatever clients are left
UpdateWriteRatesEarly(p) ==
    /\ pc[p] = "upd_fetch"
    /\ rates_file' = CachePayload(loc[p].merged_pairs, Stamp(now, TRUE))
    /\ Goto(p, "upd_read_history",
            [loc[p] EXCEPT !.last_refresh = Stamp(now, TRUE),
                           !.replaced = rates_file, !.clients = <<>>])
    /\ UNCHANGED <<scheduler, users_file, portfolios_file, session_file, history_file,
                   now, ticks, ops>>

\* a write that patches the pairs of the old document with the merged ones
UpdateWriteRatesPatch(p) ==
    /\ pc[p] = "upd_fetch"
    /\ loc[p].clients = <<>>
    /\ rates_file' =
          CachePayload(loc[p].merged_pairs
                         @@ (IF "pairs" \in DOMAIN rates_file
                             THEN rates_file.pairs ELSE NoPairs),
                       Stamp(now, TRUE))
    /\ Goto(p, "upd_read_history",
            [loc[p] EXCEPT !.last_refresh = Stamp(now, TRUE),
                           !.replaced = rates_file])
    /\ UNCHANGED <<scheduler, users_file, portfolios_file, session_file, history_file,
                   now, ticks, ops>>

UpdateWriteRates(p) ==
    /\ pc[p] = "upd_fetch"
    /\ loc[p].clients = <<>>
    /\ rates_file' = CachePayload(loc[p].merged_pairs, Stamp(now, TRUE))
    /\ Goto(p, "upd_read_history",
            [loc[p] EXCEPT !.last_refresh = Stamp(now, TRUE),
                           !.replaced = rates_file])
    /\ UNCHANGED <<scheduler, users_file, portfolios_file, session_file, history_file,
                   now, ticks, ops>>

\* the same step over a history file that does not read as a list
UpdateReadHistoryAbsent(p) ==
    /\ pc[p] = "upd_read_history"
    /\ Goto(p, "upd_write_history", [loc[p] EXCEPT !.existing = <<>>])
    /\ UNCHANGED <<scheduler, users_file, portfolios_file, session_file, rates_file,
                   history_file, now, ticks, ops>>

UpdateReadHistory(p) ==
    /\ pc[p] = "upd_read_history"
    /\ Goto(p, "upd_write_history", [loc[p] EXCEPT !.existing = history_file])
    /\ UNCHANGED <<scheduler, users_file, portfolios_file, session_file, rates_file,
                   history_file, now, ticks, ops>>

\* a write of the cycle's records alone
UpdateWriteHistoryOnly(p) ==
    /\ pc[p] = "upd_write_history"
    /\ history_file' = loc[p].history_records
    /\ Finish(p, [NoLast EXCEPT !.op = "update",
                     !.status = UpdateStatus(loc[p].ok_sources, loc[p].errors),
                     !.ok_sources = loc[p].ok_sources,
                     !.errors = loc[p].errors,
                     !.pairs = loc[p].merged_pairs,
                     !.last_refresh = loc[p].last_refresh,
                     !.cache = loc[p].replaced,
                     !.selected = loc[p].selected,
                     !.fetched = loc[p].fetched])
    /\ UNCHANGED <<scheduler, users_file, portfolios_file, session_file, rates_file,
                   now, ticks, ops>>

UpdateWriteHistory(p) ==
    /\ pc[p] = "upd_write_history"
    /\ history_file' = loc[p].existing \o loc[p].history_records
    /\ Finish(p, [NoLast EXCEPT !.op = "update",
                     !.status = UpdateStatus(loc[p].ok_sources, loc[p].errors),
                     !.ok_sources = loc[p].ok_sources,
                     !.errors = loc[p].errors,
                     !.pairs = loc[p].merged_pairs,
                     !.last_refresh = loc[p].last_refresh,
                     !.cache = loc[p].replaced,
                     !.selected = loc[p].selected,
                     !.fetched = loc[p].fetched])
    /\ UNCHANGED <<scheduler, users_file, portfolios_file, session_file, rates_file,
                   now, ticks, ops>>

-----------------------------------------------------------------------------
(* The initial state: the documents _ensure_data_files creates, with a     *)
(* rates.json that is either that default or a cache in the layout the     *)
(* core reads (top-level pair keys, naive timestamps).                     *)

DefaultRates == ("source" :> "LocalCache") @@ ("last_refresh" :> Stamp(0, FALSE))

SeedRates ==
    { DefaultRates,
      DefaultRates @@ ("BTC_USD" :> Quote(D(600000, -1), Stamp(0, FALSE), "seed")) }

Init ==
    /\ users_file = NoUsers
    /\ portfolios_file = NoPortfolios
    /\ session_file = NoSession
    /\ rates_file \in SeedRates
    /\ history_file = <<>>
    /\ now = 0
    /\ ticks = 0
    /\ ops = 0
    /\ pc = [p \in Procs |-> "idle"]
    /\ loc = [p \in Procs |-> NoLoc]
    /\ last = [p \in Procs |-> NoLast]
    /\ scheduler = NoScheduler

-----------------------------------------------------------------------------
(* The inputs of the model.                                                *)

Usernames == {"alice", "bob"}
RegisterPasswords == {"abcd", "abc"}
LoginPasswords == {"abcd", "zzzz"}
TickSteps == {1, DEFAULT_TTL_SECONDS}

\* currency and amount of a trade: 1000 (an int), 0.01, 5e-09 and 0.0
Trades ==
    { <<"USD", D(1000, 0)>>, <<"BTC", D(1, -2)>>, <<"BTC", D(5, -9)>>,
      <<"BTC", D(0, -1)>> }

\* upstream answers: a failed request, a body that is not a JSON object, and
\* answers holding some rates
Responses ==
    { [ok |-> FALSE, object |-> TRUE, rates |-> [c \in {} |-> DecZero]],
      [ok |-> TRUE, object |-> FALSE, rates |-> [c \in {} |-> DecZero]],
      [ok |-> TRUE, object |-> TRUE, rates |-> ("BTC" :> D(610000, -1))],
      [ok |-> TRUE, object |-> TRUE,
       rates |-> ("BTC" :> D(620000, -1)) @@ ("EUR" :> D(11, -1))] }

Sources == {"", "exchangerate", "binance"}
RatePairs == { <<"BTC", "USD">>, <<"USD", "BTC">>, <<"", "USD">> }

SeqProcs == {"p1"}

\* the ledger, one CLI invocation at a time
Next ==
    \/ \E p \in SeqProcs, u \in Usernames, w \in RegisterPasswords :
           RegisterLoadUsers(p, u, w)
    \/ \E p \in SeqProcs : RegisterSaveUsers(p)
    \/ \E p \in SeqProcs : RegisterLoadPortfolios(p)
    \/ \E p \in SeqProcs : RegisterSavePortfolios(p)
    \/ \E p \in SeqProcs, u \in Usernames, w \in LoginPasswords : Login(p, u, w)
    \/ \E p \in SeqProcs, t \in Trades : BuyLoad(p, t[1], t[2], "USD")
    \/ \E p \in SeqProcs : BuySave(p)
    \/ \E p \in SeqProcs, t \in Trades : SellLoad(p, t[1], t[2], "USD")
    \/ \E p \in SeqProcs : SellSave(p)

Spec == Init /\ [][Next]_vars

\* the rate cache: update cycles, lookups and the clock, one at a time
NextRates ==
    \/ \E d \in TickSteps : Tick(d)
    \/ \E p \in SeqProcs, fr \in RatePairs :
           ops < MaxRateOps /\ GetRate(p, fr[1], fr[2], DEFAULT_TTL_SECONDS)
    \/ \E p \in SeqProcs, only \in Sources :
           ops < MaxRateOps /\ UpdateStart(p, only)
    \/ \E p \in SeqProcs, r \in Responses : UpdateFetch(p, r)
    \/ \E p \in SeqProcs : UpdateWriteRates(p)
    \/ \E p \in SeqProcs : UpdateReadHistory(p)
    \/ \E p \in SeqProcs : UpdateWriteHistory(p)

SpecRates == Init /\ [][NextRates]_vars

-----------------------------------------------------------------------------
(* RatesStorage.append_history (parser_service/storage.py), in two steps:  *)
(* the read of the history file, and its write.  A file that is absent or  *)
(* is not a list reads as the empty list; the file starts absent and is    *)
(* only ever written as a list.                                            *)

AppendHistoryRead(p, records) ==
    /\ Idle(p)
    /\ ops' = ops + 1
    /\ Goto(p, "sto_write_history",
            [NoLoc EXCEPT !.existing = history_file,
                          !.history_records = records])
    /\ UNCHANGED <<scheduler, users_file, portfolios_file, session_file, rates_file,
                   history_file, now, ticks>>

AppendHistoryWrite(p) ==
    /\ pc[p] = "sto_write_history"
    /\ history_file' = loc[p].existing \o loc[p].history_records
    /\ Finish(p, [NoLast EXCEPT !.op = "append_history", !.status = "ok"])
    /\ UNCHANGED <<scheduler, users_file, portfolios_file, session_file, rates_file,
                   now, ticks, ops>>

\* the record lists handed to append_history
HistoryInputs ==
    { <<>>,
      <<HistoryRecord("BTC_USD", D(610000, -1), Stamp(0, TRUE), "CoinGecko")>> }

MaxCycles == 2

\* the clock between and within cycles: freshness plays no part in them
CycleTickSteps == {1}

\* update cycles and appends to the history, one at a time, and the clock
NextCycles ==
    \/ \E d \in CycleTickSteps : Tick(d)
    \/ \E p \in SeqProcs, only \in Sources :
           ops < MaxCycles /\ UpdateStart(p, only)
    \/ \E p \in SeqProcs, r \in Responses : UpdateFetch(p, r)
    \/ \E p \in SeqProcs : UpdateWriteRates(p)
    \/ \E p \in SeqProcs : UpdateReadHistory(p)
    \/ \E p \in SeqProcs : UpdateWriteHistory(p)
    \/ \E p \in SeqProcs, h \in HistoryInputs :
           ops < MaxCycles /\ AppendHistoryRead(p, h)
    \/ \E p \in SeqProcs : AppendHistoryWrite(p)

SpecCycles == Init /\ [][NextCycles]_vars

-----------------------------------------------------------------------------
(* The merge loop of run_update on its own: results of fetch whose keys    *)
(* overlap (as they do when PARSER_FIAT_CURRENCIES names a code of         *)
(* CRYPTO_ID_MAP) and whose stamps come in any order, merged one after the *)
(* other.  A result of fetch carries one stamp and one source for all its  *)
(* keys.                                                                   *)

MaxMerges == 3

MergeQuoteKeys == {"BTC_USD", "EUR_USD"}
MergeStamps == {0, 1, 2}
MergeSources == {"coingecko", "exchangerate"}

\* the rate a source quotes: the two sources disagree
SourceRate(client) ==
    IF client = "coingecko" THEN D(610000, -1) ELSE D(620000, -1)

\* the history records of a result, one per key
RECURSIVE PairRecords(_, _)
PairRecords(pairs, keys) ==
    IF keys = {} THEN <<>>
    ELSE LET k == CHOOSE x \in keys : TRUE
         IN  <<HistoryRecord(k, pairs[k].rate, pairs[k].updated_at, pairs[k].source)>>
               \o PairRecords(pairs, keys \ {k})

\* the body of the try block for a fetch that returned pairs
MergeFetched(p, client, t, keys) ==
    /\ Len(loc[p].fetched) < MaxMerges
    /\ LET pairs == [k \in keys |->
                        Quote(SourceRate(client), Stamp(t, TRUE), SourceName(client))]
           got == [status |-> "ok", pairs |-> pairs,
                   history |-> PairRecords(pairs, keys)]
       IN  loc' = [loc EXCEPT ![p] =
                     [@ EXCEPT !.fetched = Append(@, Fetched(client, got)),
                               !.ok_sources = @ + 1,
                               !.merged_pairs = MergePairs(@, got.pairs),
                               !.history_records = @ \o got.history]]
    /\ UNCHANGED <<scheduler, users_file, portfolios_file, session_file, rates_file,
                   history_file, now, ticks, ops, pc, last>>

NextMerge ==
    \E p \in SeqProcs, client \in MergeSources, t \in MergeStamps,
       keys \in (SUBSET MergeQuoteKeys) \ {{}} :
        MergeFetched(p, client, t, keys)

SpecMerge == Init /\ [][NextMerge]_vars

-----------------------------------------------------------------------------
(* Two CLI processes at once.  The initial state is the one the ledger     *)
(* reaches by "register alice" and "register bob" (TwoUsersRegistered).    *)

MaxConcOps == 4

TwoUsers ==
    ("alice" :> [user_id |-> 1, password |-> "abcd"])
        @@ ("bob" :> [user_id |-> 2, password |-> "abcd"])

TwoPortfolios == (1 :> NoWallets) @@ (2 :> NoWallets)

TwoUsersRegistered ==
    /\ users_file = TwoUsers
    /\ portfolios_file = TwoPortfolios
    /\ session_file = NoSession
    /\ \A p \in Procs : pc[p] = "idle"

InitConc ==
    /\ users_file = TwoUsers
    /\ portfolios_file = TwoPortfolios
    /\ session_file = NoSession
    /\ rates_file \in SeedRates
    /\ history_file = <<>>
    /\ now = 0
    /\ ticks = 0
    /\ ops = 0
    /\ pc = [p \in Procs |-> "idle"]
    /\ loc = [p \in Procs |-> NoLoc]
    /\ last = [p \in Procs |-> NoLast]
    /\ scheduler = NoScheduler

ConcTrades == { <<"USD", D(1000, 0)>>, <<"BTC", D(1, -2)>> }

NextConc ==
    \/ \E p \in Procs, u \in Usernames :
           ops < MaxConcOps /\ Login(p, u, "abcd")
    \/ \E p \in Procs, t \in ConcTrades :
           ops < MaxConcOps /\ BuyLoad(p, t[1], t[2], "USD")
    \/ \E p \in Procs : BuySave(p)
    \/ \E p \in Procs, t \in ConcTrades :
           ops < MaxConcOps /\ SellLoad(p, t[1], t[2], "USD")
    \/ \E p \in Procs : SellSave(p)

SpecConc == InitConc /\ [][NextConc]_vars

-----------------------------------------------------------------------------
(* Lookups and trades against a cache in the layout the core reads, and    *)
(* the clock.  The cache holds quotes for the pair BTC/USD in either or    *)
(* both directions; the users are registered and alice is logged in, as    *)
(* the ledger leaves them after "register" twice and "login".              *)

\* the ttl_seconds handed to get_rate: the default and a short one
TtlChoices == {DEFAULT_TTL_SECONDS, 1}

SeedQuote(rate, t) == Quote(rate, Stamp(t, FALSE), "seed")

LookupSeeds ==
    { DefaultRates,
      DefaultRates @@ ("BTC_USD" :> SeedQuote(D(600000, -1), 0)),
      DefaultRates @@ ("BTC_USD" :> SeedQuote(D(3, 0), 0)),
      DefaultRates @@ ("BTC_USD" :> SeedQuote(D(92, -2), 0)),
      DefaultRates @@ ("USD_BTC" :> SeedQuote(D(0, -1), 0)),
      DefaultRates @@ ("BTC_USD" :> SeedQuote(D(600000, -1), 0))
                   @@ ("USD_BTC" :> SeedQuote(D(2, -5), 1)) }

LookupPairs ==
    { <<"BTC", "USD">>, <<"USD", "BTC">>, <<"USD", "USD">>, <<"", "USD">> }

LookupTrades == { <<"BTC", D(1, -2)>> }

InitLookup ==
    /\ users_file = TwoUsers
    /\ portfolios_file = TwoPortfolios
    /\ session_file = [logged |-> TRUE, name |-> "alice"]
    /\ rates_file \in LookupSeeds
    /\ history_file = <<>>
    /\ now = 0
    /\ ticks = 0
    /\ ops = 0
    /\ pc = [p \in Procs |-> "idle"]
    /\ loc = [p \in Procs |-> NoLoc]
    /\ last = [p \in Procs |-> NoLast]
    /\ scheduler = NoScheduler

NextLookup ==
    \/ \E d \in TickSteps : Tick(d)
    \/ \E p \in SeqProcs, fr \in LookupPairs, ttl \in TtlChoices :
           ops < MaxRateOps /\ GetRate(p, fr[1], fr[2], ttl)
    \/ \E p \in SeqProcs, t \in LookupTrades :
           ops < MaxRateOps /\ BuyLoad(p, t[1], t[2], "USD")
    \/ \E p \in SeqProcs : BuySave(p)
    \/ \E p \in SeqProcs, t \in LookupTrades :
           ops < MaxRateOps /\ SellLoad(p, t[1], t[2], "USD")
    \/ \E p \in SeqProcs : SellSave(p)

SpecLookup == InitLookup /\ [][NextLookup]_vars

-----------------------------------------------------------------------------
(* Properties of the ledger.                                               *)

\* a finished buy or sell that was carried out with a rate from the cache
RatedTrade(r, op) ==
    /\ r.op = op
    /\ r.status = "ok"
    /\ r.rate.status = "ok"
    /\ r.currency # r.base

\* quantity * rate, quantized to the base currency
CostOf(r) == quantize_for_currency(r.base, DecMul(r.amount, r.rate.rate))

LoadedBalance(r, code) == BalanceIn(r.loaded, r.uid, code)
SavedBalance(r, code) == BalanceIn(r.saved, r.uid, code)

\* C1: after every successful buy at a fresh rate r, the saved portfolio has
\* the currency wallet increased by the quantity and the base wallet
\* decreased by cost = quantize_base(quantity * r).
C1_BuyMovesBothLegs ==
    \A p \in Procs :
        RatedTrade(last[p], "buy") =>
            /\ DecEq(SavedBalance(last[p], last[p].currency),
                     quantize_for_currency(last[p].currency,
                         DecAdd(LoadedBalance(last[p], last[p].currency),
                                last[p].amount)))
            /\ DecEq(SavedBalance(last[p], last[p].base),
                     DecSub(LoadedBalance(last[p], last[p].base), CostOf(last[p])))

\* C2: every buy whose cost exceeds the base wallet's balance (a missing
\* base wallet counts as zero) fails with InsufficientFunds and leaves the
\* persisted portfolio as it was.
C2_BuyBeyondFundsFails ==
    \A p \in Procs :
        ( /\ last[p].op = "buy"
          /\ last[p].rate.status = "ok"
          /\ last[p].currency # last[p].base
          /\ DecLt(LoadedBalance(last[p], last[p].base), CostOf(last[p])) )
        => /\ last[p].status = "InsufficientFundsError"
           /\ ~last[p].wrote
           /\ last[p].saved = last[p].loaded

\* C3: after every successful sell at a fresh rate r, the saved portfolio has
\* the currency wallet decreased by the quantity and the base wallet
\* increased by revenue = quantize_base(quantity * r).
C3_SellMovesBothLegs ==
    \A p \in Procs :
        RatedTrade(last[p], "sell") =>
            /\ DecEq(SavedBalance(last[p], last[p].currency),
                     quantize_for_currency(last[p].currency,
                         DecSub(LoadedBalance(last[p], last[p].currency),
                                last[p].amount)))
            /\ DecEq(SavedBalance(last[p], last[p].base),
                     DecAdd(LoadedBalance(last[p], last[p].base), CostOf(last[p])))

TargetLegApplied(r) ==
    ~DecEq(SavedBalance(r, r.currency), LoadedBalance(r, r.currency))
BaseLegApplied(r) ==
    ~DecEq(SavedBalance(r, r.base), LoadedBalance(r, r.base))

\* C4: a persisted trade shows both of its legs or neither: when the traded
\* amount is worth at least one unit of the base currency, the target
\* wallet changed if and only if the base wallet changed.
C4_BothLegsOrNeither ==
    \A p \in Procs :
        ( /\ last[p].op \in {"buy", "sell"}
          /\ last[p].rate.status = "ok"
          /\ last[p].currency # last[p].base
          /\ CostOf(last[p]).c # 0 )
        => (TargetLegApplied(last[p]) <=> BaseLegApplied(last[p]))

\* the change of base + target * rate that a trade made, at the trade's rate
ValueDelta(r) ==
    DecAdd(DecSub(SavedBalance(r, r.base), LoadedBalance(r, r.base)),
           DecMul(DecNorm(DecSub(SavedBalance(r, r.currency),
                                 LoadedBalance(r, r.currency))),
                  r.rate.rate))

\* C5: conservation: a trade changes base + target * rate_at_trade by at
\* most one quantization unit of the base currency.
C5_Conservation ==
    \A p \in Procs :
        ( /\ last[p].op \in {"buy", "sell"}
          /\ last[p].rate.status = "ok"
          /\ last[p].currency # last[p].base )
        => /\ DecLe(ValueDelta(last[p]), D(1, QExp(last[p].base)))
           /\ DecLe(D(-1, QExp(last[p].base)), ValueDelta(last[p]))

NonNegative(portfolios) ==
    \A u \in DOMAIN portfolios : \A c \in DOMAIN portfolios[u] :
        DecLe(DecZero, portfolios[u][c])

\* C6: after any sequence of register, buy and sell calls, no wallet balance
\* is negative: not in the persisted portfolios, not in the portfolios a
\* running call holds in memory, not in what a finished call saw or saved.
C6_BalancesNonNegative ==
    /\ NonNegative(portfolios_file)
    /\ \A p \in Procs :
        /\ NonNegative(loc[p].portfolios)
        /\ DecLe(DecZero, loc[p].after)
        /\ DecLe(DecZero, last[p].after)
        /\ NonNegative(last[p].saved)

\* a sell refused for lack of funds while the wallet holds a balance
C6_Witness ==
    \E p \in Procs :
        /\ last[p].op = "sell"
        /\ last[p].status = "InsufficientFundsError"
        /\ DecLt(DecZero, last[p].before)
        /\ NonNegative(portfolios_file)

\* the sell of r reached Wallet.withdraw
WithdrawCalled(r) ==
    /\ r.op = "sell"
    /\ DecLt(DecZero, r.amount)
    /\ r.uid \in DOMAIN r.loaded
    /\ r.currency \in DOMAIN r.loaded[r.uid]

\* C7: a withdraw of more than the balance leaves the balance unchanged and
\* raises InsufficientFunds with available = balance and required = amount;
\* nothing is persisted.
C7_WithdrawBeyondBalance ==
    \A p \in Procs :
        ( WithdrawCalled(last[p]) /\ DecLt(last[p].before, last[p].amount) )
        => /\ last[p].status = "InsufficientFundsError"
           /\ last[p].after = last[p].before
           /\ last[p].available = last[p].before
           /\ last[p].required = last[p].amount
           /\ ~last[p].wrote
           /\ last[p].saved = last[p].loaded

\* a withdraw of more than a positive balance was attempted
C7_Witness ==
    \E p \in Procs :
        /\ WithdrawCalled(last[p])
        /\ DecLt(last[p].before, last[p].amount)
        /\ DecLt(DecZero, last[p].before)
        /\ last[p].status = "InsufficientFundsError"

-----------------------------------------------------------------------------
(* Properties of concurrent use cases.                                     *)

\* a finished buy or sell that saved the portfolios
SavedTrade(r) ==
    /\ r.op \in {"buy", "sell"}
    /\ r.status = "ok"
    /\ r.wrote

\* what a trade added to the balance of a code
LegDelta(r, code) == DecSub(SavedBalance(r, code), LoadedBalance(r, code))

TradedCodes == {"USD", "BTC"}

\* C8: two successful trades of the same user are mutually exclusive over
\* load -> mutate -> persist: if both started from the same persisted
\* portfolio, the persisted portfolio shows the changes of both.
C8_NoLostUpdate ==
    \A p \in Procs : \A q \in Procs \ {p} :
        ( /\ pc[p] = "idle" /\ pc[q] = "idle"
          /\ SavedTrade(last[p]) /\ SavedTrade(last[q])
          /\ last[p].uid = last[q].uid
          /\ last[p].loaded = last[q].loaded )
        => \A c \in TradedCodes :
               DecEq(BalanceIn(portfolios_file, last[p].uid, c),
                     DecAdd(LoadedBalance(last[p], c),
                            DecAdd(LegDelta(last[p], c), LegDelta(last[q], c))))

\* C9: trades of different users are independent: if both started from the
\* same persisted document, the persisted document holds the portfolio each
\* of them saved for its own user.
C9_UsersIndependent ==
    \A p \in Procs : \A q \in Procs \ {p} :
        ( /\ pc[p] = "idle" /\ pc[q] = "idle"
          /\ SavedTrade(last[p]) /\ SavedTrade(last[q])
          /\ last[p].uid # last[q].uid
          /\ last[p].loaded = last[q].loaded )
        => \A c \in TradedCodes :
               /\ DecEq(BalanceIn(portfolios_file, last[p].uid, c),
                        SavedBalance(last[p], c))
               /\ DecEq(BalanceIn(portfolios_file, last[q].uid, c),
                        SavedBalance(last[q], c))

-----------------------------------------------------------------------------
(* Properties of the rate cache.                                           *)

\* the quote an update cycle persisted for frm -> to in the document a
\* lookup read, if there is one
CycleQuoted(cache, frm, to) ==
    /\ "pairs" \in DOMAIN cache
    /\ pair_key(frm, to) \in DOMAIN cache.pairs

\* C10: a lookup of A -> B that reads the snapshot of the latest update
\* cycle, holding a quote for A_B observed at t with now - t <= ttl, returns
\* that quote's rate and its observed_at.
C10_FreshQuoteResolved ==
    \A p \in Procs :
        ( /\ last[p].op = "get_rate"
          /\ CycleQuoted(last[p].cache, last[p].currency, last[p].base)
          /\ last[p].at
               - last[p].cache.pairs[pair_key(last[p].currency, last[p].base)]
                     .updated_at.t <= DEFAULT_TTL_SECONDS )
        => LET q == last[p].cache.pairs[pair_key(last[p].currency, last[p].base)]
           IN  /\ last[p].status = "ok"
               /\ last[p].rate.rate = q.rate
               /\ last[p].rate.updated = q.updated_at

-----------------------------------------------------------------------------
(* Properties of update cycles.                                            *)

\* the cycle of p has called every client and none of the calls succeeded:
\* its status will be "failed"
FailedCycle(p) == loc[p].clients = <<>> /\ loc[p].ok_sources = 0

\* C11: a cycle in which no adapter succeeds does not overwrite the
\* persisted snapshot: rates.json is the same after its write step.
C11_FailedKeepsSnapshot ==
    [][ \A p \in Procs :
            (pc[p] = "upd_fetch" /\ FailedCycle(p)) => rates_file' = rates_file
      ]_vars

\* C12: a cycle with status failed leaves the history log untouched: the
\* record sequence after its write of the history file equals the one before.
C12_FailedKeepsHistory ==
    [][ \A p \in Procs :
            (pc[p] \in {"upd_read_history", "upd_write_history"} /\ FailedCycle(p))
            => history_file' = history_file
      ]_vars

\* a failed cycle has finished over a history log that holds records
C12_Witness ==
    \E p \in Procs :
        /\ last[p].op = "update"
        /\ last[p].status = "failed"
        /\ pc[p] = "idle"
        /\ history_file # <<>>

\* the calls of fetch a cycle made that succeeded, and those that failed
Succeeded(r) == { i \in 1..Len(r.fetched) : r.fetched[i].status = "ok" }
Failed(r) == { i \in 1..Len(r.fetched) : r.fetched[i].status # "ok" }

\* run_update has returned r
Returned(r) ==
    r.op = "update" /\ r.status \in {"success", "partial", "failed"}

\* C13: the returned status is success iff every selected adapter ran and
\* none failed, partial iff some succeeded and some failed, failed iff none
\* succeeded; ok_sources counts the adapters that succeeded and errors has
\* exactly one entry per failed adapter.
C13_StatusCountsAdapters ==
    \A p \in Procs :
        LET r == last[p]
            S == Cardinality(Succeeded(r))
            F == Cardinality(Failed(r))
        IN  Returned(r) =>
            /\ (r.status = "success") <=> (Len(r.fetched) = Len(r.selected) /\ F = 0)
            /\ (r.status = "partial") <=> (S > 0 /\ F > 0)
            /\ (r.status = "failed") <=> (S = 0)
            /\ r.ok_sources = S
            /\ Len(r.errors) = F
            /\ { r.errors[i] : i \in 1..Len(r.errors) }
                   = { r.fetched[i].source : i \in Failed(r) }

\* a cycle in which one adapter succeeded and the other failed has returned
C13_Witness ==
    \E p \in Procs :
        /\ Returned(last[p])
        /\ last[p].status = "partial"
        /\ Succeeded(last[p]) # {}
        /\ Failed(last[p]) # {}

\* the pairs of the persisted snapshot (none before the first cycle wrote)
PersistedPairs ==
    IF "pairs" \in DOMAIN rates_file THEN rates_file.pairs ELSE NoPairs

\* C14: a failure of one adapter never aborts the cycle: every selected
\* adapter is invoked, each failure is collected in errors, and the
\* persisted snapshot holds the quotes of every adapter that succeeded.
C14_FailureNeverAborts ==
    \A p \in Procs :
        LET r == last[p] IN
        (pc[p] = "idle" /\ r.op = "update" /\ r.selected # <<>>) =>
            /\ Len(r.fetched) = Len(r.selected)
            /\ \A i \in Failed(r) :
                   \E j \in 1..Len(r.errors) : r.errors[j] = r.fetched[i].source
            /\ \A i \in Succeeded(r) : r.fetched[i].keys \subseteq DOMAIN PersistedPairs

\* the quotes a cycle has seen for a key, as positions in the order seen
QuotesFor(h, k) == { i \in 1..Len(h) : h[i].id = k }

\* the first of the quotes with the greatest stamp
Winner(h, k) ==
    CHOOSE i \in QuotesFor(h, k) :
        \A j \in QuotesFor(h, k) :
            \/ h[j].timestamp.t < h[i].timestamp.t
            \/ (h[j].timestamp.t = h[i].timestamp.t /\ i <= j)

\* C15: the merge keeps, for each pair key, exactly one quote: the one with
\* the greatest stamp among all quotes seen for the key, whatever the order
\* they were seen in, and the first seen among those with equal stamps.
C15_MergeKeepsLatest ==
    \A p \in Procs :
        LET h == loc[p].history_records
            m == loc[p].merged_pairs
        IN  /\ DOMAIN m = { h[i].id : i \in 1..Len(h) }
            /\ \A k \in DOMAIN m :
                   LET w == h[Winner(h, k)]
                   IN  m[k] = Quote(w.rate, w.timestamp, w.source)

\* two sources quoted a key with the same stamp after an older quote, and
\* the first of the two is the one kept
C15_Witness ==
    \E p \in Procs :
        LET h == loc[p].history_records
            m == loc[p].merged_pairs
        IN  \E k \in DOMAIN m :
              \E a, i, j \in QuotesFor(h, k) :
                /\ a < i /\ i < j
                /\ h[a].timestamp.t < h[i].timestamp.t
                /\ h[i].timestamp = h[j].timestamp
                /\ h[i].source # h[j].source
                /\ m[k].source = h[i].source
                /\ m[k].updated_at = h[i].timestamp

\* the keys the successful fetches of a cycle returned
ProducedKeys(r) == UNION { r.fetched[i].keys : i \in Succeeded(r) }

\* the pairs of the document a cycle's write replaced
ReplacedPairs(r) ==
    IF "pairs" \in DOMAIN r.cache THEN DOMAIN r.cache.pairs ELSE {}

\* C16: after a successful or partial cycle the persisted snapshot holds
\* exactly the pairs merged in that cycle and the cycle's last_refresh, and
\* nothing of the document it replaced.
C16_SnapshotFullyReplaced ==
    \A p \in Procs :
        LET r == last[p] IN
        (pc[p] = "idle" /\ r.op = "update" /\ r.status \in {"success", "partial"}) =>
            /\ DOMAIN rates_file = {"pairs", "last_refresh"}
            /\ rates_file.pairs = r.pairs
            /\ DOMAIN rates_file.pairs = ProducedKeys(r)
            /\ rates_file.last_refresh = r.last_refresh

\* a cycle has replaced a snapshot holding a pair the cycle did not produce
C16_Witness ==
    \E p \in Procs :
        /\ pc[p] = "idle"
        /\ last[p].op = "update"
        /\ last[p].status \in {"success", "partial"}
        /\ \E k \in ReplacedPairs(last[p]) :
               k \notin ProducedKeys(last[p]) /\ k \notin DOMAIN PersistedPairs

\* C17: across update cycles the stamp persisted for a pair never goes
\* back: every quote an earlier cycle recorded for the pair is no later than
\* the one the snapshot holds.
C17_StampsNeverRegress ==
    \A k \in DOMAIN PersistedPairs :
        \A i \in QuotesFor(history_file, k) :
            history_file[i].timestamp.t <= PersistedPairs[k].updated_at.t

\* a later cycle has rewritten a pair with a later stamp
C17_Witness ==
    \E k \in DOMAIN PersistedPairs :
        \E i, j \in QuotesFor(history_file, k) :
            /\ i < j
            /\ history_file[i].source = PersistedPairs[k].source
            /\ history_file[i].timestamp.t < history_file[j].timestamp.t
            /\ history_file[j].timestamp = PersistedPairs[k].updated_at

\* p writes the history file in this step
WritesHistory(p) ==
    pc[p] \in {"upd_write_history", "sto_write_history"} /\ pc'[p] = "idle"

\* C18: the history log is append-only: a step that writes it leaves the
\* stored records as a prefix, followed by exactly the writer's records in
\* order; no other step changes it.
C18_HistoryAppendOnly ==
    [][ IF \E p \in Procs : WritesHistory(p)
        THEN \E p \in Procs :
                 /\ WritesHistory(p)
                 /\ history_file' = history_file \o loc[p].history_records
        ELSE history_file' = history_file
      ]_vars

\* a cycle has appended a record equal to one already stored, and both stay
C18_Witness ==
    \E p \in Procs :
        LET n == Cardinality(ProducedKeys(last[p]))
            old == Len(history_file) - n
        IN  /\ Returned(last[p])
            /\ pc[p] = "idle"
            /\ \E i \in 1..old, j \in (old + 1)..Len(history_file) :
                   history_file[i] = history_file[j]

\* the keys an adapter covers
CoveredKeys(client) ==
    { pair_key(CoveredCodes(client)[i], BASE_FIAT_CURRENCY) :
        i \in 1..Len(CoveredCodes(client)) }

\* C19: a fetch is all-or-nothing: it returns a quote for every pair the
\* adapter covers or fails with the adapter's error (ApiRequestError); it
\* never returns a subset.
C19_FetchAllOrNothing ==
    \A p \in Procs :
        \A r \in {loc[p], last[p]} :
            \A i \in 1..Len(r.fetched) :
                /\ r.fetched[i].status \in {"ok", "ApiRequestError"}
                /\ r.fetched[i].status = "ok"
                      => r.fetched[i].keys = CoveredKeys(r.fetched[i].client)

-----------------------------------------------------------------------------
(* Two update cycles at once: two "update-rates" invocations, or one and   *)
(* the scheduler's thread, over the same data directory.                   *)

MaxConcCycles == 2

NextCyclesConc ==
    \/ \E p \in Procs, only \in Sources :
           ops < MaxConcCycles /\ UpdateStart(p, only)
    \/ \E p \in Procs, r \in Responses : UpdateFetch(p, r)
    \/ \E p \in Procs : UpdateWriteRates(p)
    \/ \E p \in Procs : UpdateReadHistory(p)
    \/ \E p \in Procs : UpdateWriteHistory(p)

SpecCyclesConc == Init /\ [][NextCyclesConc]_vars

-----------------------------------------------------------------------------
(* The scheduler: start, stop, and the loop of its thread.  The thread is  *)
(* at "loop" before the test of the while, at "run" inside run_once, at    *)
(* "wait" inside the wait on the stop event, and "ended" after the loop.   *)

MaxIterations == 3
MaxSchedUpdates == 1

\* the process that stands for the scheduler's thread
SchedProc == "p2"

\* ParserScheduler.interval_seconds: int(max(1, interval_seconds)), for an
\* interval of one second
interval_seconds == 1

\* ParserScheduler.sources, by default
SchedSources == <<"coingecko", "exchangerate">>

\* the parameters RatesUpdater.__init__ and run_update take beside self
RatesUpdaterParams == {"config"}
RunUpdateParams == {"only"}

\* a call by keywords: TypeError on a keyword the callee does not take
CallByKeywords(keywords, params) ==
    IF keywords \subseteq params THEN "ok" ELSE "TypeError"

\* _build_updater: RatesUpdater(clients=clients, storage=self.storage)
build_updater == CallByKeywords({"clients", "storage"}, RatesUpdaterParams)

\* run_once: the updater is built, then run_update(sources=self.sources)
run_once ==
    IF build_updater # "ok" THEN build_updater
    ELSE CallByKeywords({"sources"}, RunUpdateParams)

\* start: nothing happens while the thread is alive
SchedStart ==
    /\ scheduler.thread \in {"none", "ended"}
    /\ scheduler' = [scheduler EXCEPT !.stop_event = FALSE, !.thread = "loop"]
    /\ UNCHANGED <<users_file, portfolios_file, session_file, rates_file,
                   history_file, now, ticks, ops, pc, loc, last>>

\* stop
SchedStop ==
    /\ ~scheduler.stop_event
    /\ scheduler' = [scheduler EXCEPT !.stop_event = TRUE]
    /\ UNCHANGED <<users_file, portfolios_file, session_file, rates_file,
                   history_file, now, ticks, ops, pc, loc, last>>

\* _run_loop, the test of the while found the event clear: run_once is
\* called; an exception it raises is logged
SchedIterate ==
    /\ scheduler.thread = "loop"
    /\ ~scheduler.stop_event
    /\ scheduler.iterations < MaxIterations
    /\ pc[SchedProc] = "idle"
    /\ scheduler' = [scheduler EXCEPT !.thread = "run",
                                      !.iterations = scheduler.iterations + 1]
    /\ IF run_once = "ok"
       THEN Goto(SchedProc, "upd_fetch",
                 [NoLoc EXCEPT !.clients = SchedSources, !.selected = SchedSources])
       ELSE Finish(SchedProc,
                   [NoLast EXCEPT !.op = "run_once", !.status = run_once])
    /\ UNCHANGED <<users_file, portfolios_file, session_file, rates_file,
                   history_file, now, ticks, ops>>

\* _run_loop, after run_once: the thread waits on the stop event, for
\* interval_seconds at most
SchedWait ==
    /\ scheduler.thread = "run"
    /\ pc[SchedProc] = "idle"
    /\ scheduler' = [scheduler EXCEPT !.thread = "wait",
                                      !.deadline = now + interval_seconds]
    /\ UNCHANGED <<users_file, portfolios_file, session_file, rates_file,
                   history_file, now, ticks, ops, pc, loc, last>>

\* a wait that is a sleep: it returns when interval_seconds have passed
SchedSleep ==
    /\ scheduler.thread = "wait"
    /\ now >= scheduler.deadline
    /\ scheduler' = [scheduler EXCEPT !.thread = "loop"]
    /\ UNCHANGED <<users_file, portfolios_file, session_file, rates_file,
                   history_file, now, ticks, ops, pc, loc, last>>

\* the wait returns: the event was set, or interval_seconds have passed
SchedWake ==
    /\ scheduler.thread = "wait"
    /\ scheduler.stop_event \/ now >= scheduler.deadline
    /\ scheduler' = [scheduler EXCEPT !.thread = "loop"]
    /\ UNCHANGED <<users_file, portfolios_file, session_file, rates_file,
                   history_file, now, ticks, ops, pc, loc, last>>

\* _run_loop, the test of the while found the event set: the thread ends
SchedExit ==
    /\ scheduler.thread = "loop"
    /\ scheduler.stop_event
    /\ scheduler' = [scheduler EXCEPT !.thread = "ended"]
    /\ UNCHANGED <<users_file, portfolios_file, session_file, rates_file,
                   history_file, now, ticks, ops, pc, loc, last>>

\* the scheduler, and "update-rates" run by hand beside it
NextSched ==
    \/ \E d \in CycleTickSteps : Tick(d)
    \/ SchedStart
    \/ SchedStop
    \/ SchedIterate
    \/ SchedWait
    \/ SchedWake
    \/ SchedExit
    \/ \E p \in SeqProcs : ops < MaxSchedUpdates /\ UpdateStart(p, "exchangerate")
    \/ \E p \in SeqProcs, r \in Responses : UpdateFetch(p, r)
    \/ \E p \in SeqProcs : UpdateWriteRates(p)
    \/ \E p \in SeqProcs : UpdateReadHistory(p)
    \/ \E p \in SeqProcs : UpdateWriteHistory(p)

SpecSched == Init /\ [][NextSched]_vars

\* the scheduler's thread is scheduled: a step of it that stays possible is
\* taken
SpecSchedFair ==
    /\ SpecSched
    /\ WF_vars(SchedWait)
    /\ WF_vars(SchedWake)
    /\ WF_vars(SchedExit)
    /\ \A r \in Responses : WF_vars(UpdateFetch(SchedProc, r))
    /\ WF_vars(UpdateWriteRates(SchedProc))
    /\ WF_vars(UpdateReadHistory(SchedProc))
    /\ WF_vars(UpdateWriteHistory(SchedProc))

-----------------------------------------------------------------------------
(* Trades in several codes: a registered crypto code, a code the quote     *)
(* sources cover but the precision table does not hold (SOL), a code that  *)
(* is well-formed and not registered (XYZ), and the base currency.  The    *)
(* amounts include ties of the rounding: 5e-09 and 0.005.                  *)

MaxCodeOps == 3

CodeTrades ==
    { <<"BTC", D(5, -9)>>, <<"BTC", D(1, -2)>>, <<"SOL", D(5, -3)>>,
      <<"XYZ", D(1, 0)>>, <<"USD", D(1000, 0)>> }

InitCodes ==
    /\ users_file = TwoUsers
    /\ portfolios_file = TwoPortfolios
    /\ session_file = [logged |-> TRUE, name |-> "alice"]
    /\ rates_file \in SeedRates
    /\ history_file = <<>>
    /\ now = 0
    /\ ticks = 0
    /\ ops = 0
    /\ pc = [p \in Procs |-> "idle"]
    /\ loc = [p \in Procs |-> NoLoc]
    /\ last = [p \in Procs |-> NoLast]
    /\ scheduler = NoScheduler

NextCodes ==
    \/ \E p \in SeqProcs, t \in CodeTrades :
           ops < MaxCodeOps /\ BuyLoad(p, t[1], t[2], "USD")
    \/ \E p \in SeqProcs : BuySave(p)
    \/ \E p \in SeqProcs, t \in CodeTrades :
           ops < MaxCodeOps /\ SellLoad(p, t[1], t[2], "USD")
    \/ \E p \in SeqProcs : SellSave(p)

SpecCodes == InitCodes /\ [][NextCodes]_vars

-----------------------------------------------------------------------------
(* The portfolio view beside update cycles: alice is logged in, buys, runs *)
(* "update-rates" and looks at her portfolio.                              *)

MaxShowOps == 3

NextShow ==
    \/ \E d \in CycleTickSteps : Tick(d)
    \/ \E p \in SeqProcs :
           ops < MaxShowOps /\ ShowPortfolio(p, "USD", DEFAULT_TTL_SECONDS)
    \/ \E p \in SeqProcs, t \in LookupTrades :
           ops < MaxShowOps /\ BuyLoad(p, t[1], t[2], "USD")
    \/ \E p \in SeqProcs : BuySave(p)
    \/ \E p \in SeqProcs, only \in Sources :
           ops < MaxShowOps /\ UpdateStart(p, only)
    \/ \E p \in SeqProcs, r \in Responses : UpdateFetch(p, r)
    \/ \E p \in SeqProcs : UpdateWriteRates(p)
    \/ \E p \in SeqProcs : UpdateReadHistory(p)
    \/ \E p \in SeqProcs : UpdateWriteHistory(p)

SpecShow == InitCodes /\ [][NextShow]_vars

-----------------------------------------------------------------------------
(* Registration: "register" invocations one at a time, and two of them at  *)
(* once.  Names come with and without surrounding blanks.                  *)

MaxRegOps == 3

RegisterNames == {"alice", " alice ", "bob", " "}

\* one CLI invocation at a time
NextReg ==
    \/ \E p \in SeqProcs, u \in RegisterNames, w \in RegisterPasswords :
           RegisterLoadUsers(p, u, w)
    \/ \E p \in SeqProcs : RegisterSaveUsers(p)
    \/ \E p \in SeqProcs : RegisterLoadPortfolios(p)
    \/ \E p \in SeqProcs : RegisterSavePortfolios(p)
    \/ \E p \in SeqProcs, u \in Usernames, w \in LoginPasswords : Login(p, u, w)

SpecReg == Init /\ [][NextReg]_vars

\* two CLI processes over the same data directory
NextRegConc ==
    \/ \E p \in Procs, u \in RegisterNames :
           ops < MaxRegOps /\ RegisterLoadUsers(p, u, "abcd")
    \/ \E p \in Procs : RegisterSaveUsers(p)
    \/ \E p \in Procs : RegisterLoadPortfolios(p)
    \/ \E p \in Procs : RegisterSavePortfolios(p)

SpecRegConc == Init /\ [][NextRegConc]_vars

-----------------------------------------------------------------------------
(* Properties of lookups.                                                  *)

\* get_rate of r found a direct entry with a naive stamp in the cache
DirectEntry(r) ==
    /\ r.op = "get_rate"
    /\ r.status # "ValueError"
    /\ pair_key(r.currency, r.base) \in DOMAIN r.cache
    /\ ~r.cache[pair_key(r.currency, r.base)].updated_at.z

\* the age of that entry at the lookup
AgeOf(r) == r.at - r.cache[pair_key(r.currency, r.base)].updated_at.t

\* C20: freshness is inclusive at the boundary: a direct quote whose age is
\* at most ttl_seconds is returned with its stamp, and an older one, with no
\* inverse entry to fall back on, makes the lookup fail as unavailable.
C20_FreshnessInclusive ==
    \A p \in Procs :
        LET r == last[p]
            q == r.cache[pair_key(r.currency, r.base)]
        IN  DirectEntry(r) =>
            /\ AgeOf(r) <= r.ttl
                  => /\ r.status = "ok"
                     /\ r.rate.rate = q.rate
                     /\ r.rate.updated = q.updated_at
            /\ (AgeOf(r) > r.ttl /\ pair_key(r.base, r.currency) \notin DOMAIN r.cache)
                  => r.status = "CurrencyNotFoundError"

\* a quote exactly ttl_seconds old was looked up and returned
C20_Witness ==
    \E p \in Procs :
        /\ DirectEntry(last[p])
        /\ last[p].ttl = DEFAULT_TTL_SECONDS
        /\ AgeOf(last[p]) = last[p].ttl
        /\ last[p].status = "ok"

\* the call of r looked a rate up in the cache
LookedUp(r) == r.op \in {"get_rate", "buy", "sell"} /\ r.rate.status # "none"

\* the cache r read holds a fresh entry under the key
FreshIn(r, key) ==
    /\ key \in DOMAIN r.cache
    /\ ~r.cache[key].updated_at.z
    /\ r.at - r.cache[key].updated_at.t <= r.ttl

DirectKey(r) == pair_key(r.currency, r.base)
InverseKey(r) == pair_key(r.base, r.currency)

\* the lookup of r went through the inverse entry
ViaInverse(r) ==
    /\ LookedUp(r)
    /\ ~FreshIn(r, DirectKey(r))
    /\ FreshIn(r, InverseKey(r))

\* C21: a lookup prefers the direct pair: a fresh direct entry is returned
\* as it is; only when the direct entry is absent or stale and the inverse
\* entry is fresh is 1 / inverse rate returned, with the inverse entry's
\* stamp; no rate is returned otherwise.
C21_DirectPreferred ==
    \A p \in Procs :
        LET r == last[p]
            d == r.cache[DirectKey(r)]
            i == r.cache[InverseKey(r)]
        IN  LookedUp(r) =>
            /\ FreshIn(r, DirectKey(r))
                  => r.rate = RateResult("ok", d.rate, d.updated_at)
            /\ (ViaInverse(r) /\ i.rate.c # 0)
                  => r.rate = RateResult("ok", DecInv(i.rate), i.updated_at)
            /\ r.rate.status = "ok"
                  => (FreshIn(r, DirectKey(r)) \/ FreshIn(r, InverseKey(r)))

\* a stale direct entry was passed over for a fresh inverse one
C21_Witness ==
    \E p \in Procs :
        /\ ViaInverse(last[p])
        /\ DirectKey(last[p]) \in DOMAIN last[p].cache
        /\ last[p].rate.status = "ok"
        /\ last[p].rate.updated = last[p].cache[InverseKey(last[p])].updated_at
        /\ last[p].rate.updated # last[p].cache[DirectKey(last[p])].updated_at

\* C22: when neither the direct nor the inverse entry is present and fresh
\* the lookup fails as unavailable, returns no rate, and leaves the snapshot
\* and the history (no fetch) as they were.
C22_UnavailableWhenNoneFresh ==
    \A p \in Procs :
        LET r == last[p] IN
        (LookedUp(r) /\ ~FreshIn(r, DirectKey(r)) /\ ~FreshIn(r, InverseKey(r)))
        => /\ r.rate = RateMiss("CurrencyNotFoundError")
           /\ r.op = "get_rate" => r.status = "CurrencyNotFoundError"
           /\ rates_file = r.cache
           /\ history_file = <<>>

\* get_rate found only a stale inverse entry
C22_Witness ==
    \E p \in Procs :
        LET r == last[p] IN
        /\ r.op = "get_rate"
        /\ LookedUp(r)
        /\ DirectKey(r) \notin DOMAIN r.cache
        /\ InverseKey(r) \in DOMAIN r.cache
        /\ ~FreshIn(r, InverseKey(r))
        /\ r.status = "CurrencyNotFoundError"

\* C23: for every code c and every snapshot, the lookup of c against c
\* returns rate 1.
C23_SameCurrencyIsOne ==
    \A p \in Procs :
        LET r == last[p] IN
        (r.op = "get_rate" /\ r.currency # "" /\ r.currency = r.base)
        => /\ r.status = "ok"
           /\ DecEq(r.rate.rate, D(1, 0))

\* get_rate of r went through the inverse entry, which holds a positive rate
InvertedQuote(r) ==
    /\ r.op = "get_rate"
    /\ ViaInverse(r)
    /\ DirectKey(r) \notin DOMAIN r.cache
    /\ r.cache[InverseKey(r)].rate.c > 0

DecDist(a, b) == IF DecLt(a, b) THEN DecSub(b, a) ELSE DecSub(a, b)

C25_ZeroInverseFails ==
    \A p \in Procs :
        LET r == last[p] IN
        (ViaInverse(r) /\ r.cache[InverseKey(r)].rate.c = 0)
        => /\ r.rate = RateMiss("DivisionByZero")
           /\ r.status = "DivisionByZero"
           /\ r.op \in {"buy", "sell"} => (~r.wrote /\ r.saved = r.loaded)

\* a buy met a fresh inverse entry of rate zero
C25_Witness ==
    \E p \in Procs :
        /\ last[p].op = "buy"
        /\ ViaInverse(last[p])
        /\ last[p].cache[InverseKey(last[p])].rate.c = 0
        /\ last[p].status = "DivisionByZero"
        /\ portfolios_file = last[p].loaded

-----------------------------------------------------------------------------
(* Properties of registration.                                             *)

\* p and q have both been handed a registered user
BothRegistered(p, q) ==
    /\ p # q
    /\ last[p].op = "register" /\ last[p].status = "ok"
    /\ last[q].op = "register" /\ last[q].status = "ok"

\* C27: of two register calls with the same username, whatever their
\* interleaving, at most one succeeds: two callers are never both handed a
\* registered user of that name.
C27_OneWinnerPerName ==
    \A p, q \in Procs : BothRegistered(p, q) => last[p].name # last[q].name

\* C28: a register call whose trimmed username is in the persisted user set
\* fails with UserAlreadyExists and leaves users.json and portfolios.json as
\* they were.
C28_DuplicateRejected ==
    [][ \A p \in Procs, u \in RegisterNames, w \in RegisterPasswords :
            ( /\ RegisterLoadUsers(p, u, w)
              /\ Len(w) >= 4
              /\ strip(u) \in DOMAIN users_file )
            => /\ last'[p].status = "UserAlreadyExistsError"
               /\ users_file' = users_file
               /\ portfolios_file' = portfolios_file
      ]_vars

\* C29: user ids are unique: no two successful registrations return the
\* same id, and no two persisted users share one.
C29_UserIdsUnique ==
    /\ \A p, q \in Procs : BothRegistered(p, q) => last[p].uid # last[q].uid
    /\ \A a, b \in DOMAIN users_file :
           a # b => users_file[a].user_id # users_file[b].user_id

-----------------------------------------------------------------------------
(* Properties of concurrent update cycles.                                 *)

\* p is between the start of run_update and its return
InCycle(p) == pc[p] \in {"upd_fetch", "upd_read_history", "upd_write_history"}

\* the history holds a record for every key a returned cycle got from a
\* source, as it does after the cycles run in any serial order
HistoryKeepsCycles ==
    \A p \in Procs :
        Returned(last[p]) =>
            \A i \in Succeeded(last[p]) : \A k \in last[p].fetched[i].keys :
                \E j \in 1..Len(history_file) :
                    /\ history_file[j].id = k
                    /\ history_file[j].source = last[p].fetched[i].source

\* C26: at most one update cycle is in flight at any time, so that the
\* persisted history is what the cycles leave in some serial order: it
\* keeps the records of every cycle that has returned.
C26_CyclesSerialized ==
    /\ \A p, q \in Procs : (InCycle(p) /\ InCycle(q)) => p = q
    /\ HistoryKeepsCycles

-----------------------------------------------------------------------------
(* Properties of the scheduler.                                            *)

\* C30: while the scheduler runs, each iteration of its loop executes one
\* update cycle over its sources: when the thread reaches its wait,
\* run_update has returned for it.
C30_IterationRunsCycle ==
    scheduler.thread = "wait" => Returned(last[SchedProc])

\* the scheduler's thread is alive
ThreadAlive == scheduler.thread \in {"loop", "run", "wait"}

\* C31: after stop() on a started scheduler the thread eventually ends: the
\* call of run_once in flight is not touched by stop(), the wait is cut
\* short (the thread ends whether or not the clock advances), and no
\* iteration starts while the stop event is set.
C31_StopEndsThread ==
    /\ [][ (scheduler'.stop_event /\ ~scheduler.stop_event)
              => (pc' = pc /\ loc' = loc /\ last' = last
                  /\ scheduler'.thread = scheduler.thread) ]_vars
    /\ [][ scheduler'.iterations # scheduler.iterations
              => ~scheduler.stop_event ]_vars
    /\ (scheduler.stop_event /\ ThreadAlive) ~> (scheduler.thread = "ended")

\* the thread has ended after an iteration, before its wait ran out
C31_Witness ==
    /\ scheduler.thread = "ended"
    /\ scheduler.stop_event
    /\ scheduler.iterations > 0
    /\ now < scheduler.deadline

-----------------------------------------------------------------------------
(* Properties of failing trades.                                           *)

\* p has finished a buy or a sell
Traded(r) == r.op \in {"buy", "sell"}

\* C32: a buy or sell issued when neither the direct nor the inverse entry
\* for currency -> base is fresh fails with the lookup's error handed to the
\* caller, and leaves the persisted portfolio as it was.
C32_TradeWithoutRateFails ==
    \A p \in Procs :
        LET r == last[p] IN
        ( /\ pc[p] = "idle"
          /\ Traded(r) /\ LookedUp(r)
          /\ ~FreshIn(r, DirectKey(r)) /\ ~FreshIn(r, InverseKey(r)) )
        => /\ r.status = "CurrencyNotFoundError"
           /\ ~r.wrote
           /\ r.saved = r.loaded

\* C33: a buy whose code is well-formed but not in the registry fails with
\* CurrencyNotFound, and the persisted portfolio gains no wallet for the
\* code and has no balance changed.
C33_UnregisteredCodeRejected ==
    \A p \in Procs :
        LET r == last[p] IN
        ( /\ pc[p] = "idle"
          /\ r.op = "buy" /\ r.uid # 0
          /\ DecLt(DecZero, r.amount)
          /\ WellFormedCode(r.currency)
          /\ get_currency(r.currency) # "ok" )
        => /\ r.status = "CurrencyNotFoundError"
           /\ ~r.wrote
           /\ r.currency \notin DOMAIN WalletsOf(r.saved, r.uid)

\* the sell of r found no wallet of its currency in the portfolio it loaded
NoWalletFor(r) ==
    /\ r.op = "sell" /\ r.uid # 0
    /\ DecLt(DecZero, r.amount)
    /\ WellFormedCode(r.currency)
    /\ r.currency \notin DOMAIN WalletsOf(r.loaded, r.uid)

BeyondBalance(r) ==
    /\ r.op = "sell" /\ r.uid # 0
    /\ DecLt(DecZero, r.amount)
    /\ r.currency \in DOMAIN WalletsOf(r.loaded, r.uid)
    /\ DecLt(load_portfolios(r.loaded)[r.uid][r.currency], r.amount)

\* C35: a sell whose quantity exceeds the wallet's balance fails with
\* InsufficientFunds, raised by withdraw before any wallet is changed and
\* before any save: the persisted portfolio is the same before and after.
C35_SellBeyondBalanceFails ==
    \A p \in Procs :
        LET r == last[p] IN
        (pc[p] = "idle" /\ BeyondBalance(r))
        => /\ r.status = "InsufficientFundsError"
           /\ r.rate.status = "none"
           /\ ~r.wrote
           /\ r.saved = r.loaded
           /\ DecEq(r.after, r.before)

\* a sell beyond the balance has failed, the file as it was loaded
C35_Witness ==
    \E p \in Procs :
        /\ pc[p] = "idle"
        /\ BeyondBalance(last[p])
        /\ last[p].status = "InsufficientFundsError"
        /\ portfolios_file = last[p].loaded
        /\ DecLt(DecZero, last[p].before)

\* C36: every successful buy or sell returns a result that carries the
\* before and after balances of both legs (the entry "portfolio_changes"
\* the caller reads), the rate used and the cost or revenue, so that the
\* caller does not fail after the trade has been persisted.
C36_ResultCarriesBothLegs ==
    \A p \in Procs :
        LET r == last[p] IN
        (pc[p] = "idle" /\ Traded(r) /\ r.status = "ok" /\ r.wrote)
        => /\ "portfolio_changes" \in r.keys
           /\ "rate_used" \in r.keys
           /\ r.printed = "ok"

-----------------------------------------------------------------------------
(* Properties of quantization.                                             *)

\* the fiat codes and the crypto-like codes the system handles: those of
\* the precision table and those the quote sources cover
FiatCodes == {"USD", "EUR", "RUB"} \cup {FIAT_CURRENCIES[i] : i \in DOMAIN FIAT_CURRENCIES}
CryptoCodes == {"USDT", "BTC", "ETH"} \cup {CRYPTO_ID_MAP[i] : i \in DOMAIN CRYPTO_ID_MAP}

\* the fractional digits the kind of a code calls for
KindDigits(code) == IF code \in CryptoCodes THEN DecCryptoDigits ELSE DecFiatDigits

\* the exact balance the trade of r leaves in the traded wallet
ExactAfter(r) ==
    IF r.op = "buy" THEN DecAdd(r.before, r.amount) ELSE DecSub(r.before, r.amount)

\* r is a trade that changed a wallet
Moved(r) == Traded(r) /\ r.status = "ok" /\ r.wrote

\* C37: every wallet balance is quantized with the precision of its
\* currency's kind, 2 fractional digits for fiat and 8 for crypto-like
\* codes (those the quote sources cover included): a persisted balance has
\* that many digits, and a trade leaves the exact amount rounded to them.
C37_PrecisionByKind ==
    /\ \A u \in DOMAIN portfolios_file : \A c \in DOMAIN portfolios_file[u] :
           (c \in FiatCodes \cup CryptoCodes)
               => portfolios_file[u][c].e = -KindDigits(c)
    /\ \A p \in Procs :
           LET r == last[p] IN
           (Moved(r) /\ r.currency \in FiatCodes \cup CryptoCodes)
               => DecEq(r.after,
                        QuantizeHalfUp(ExactAfter(r), -KindDigits(r.currency)))

\* C38: quantize rounds half-up to the precision of the code and is
\* idempotent: the balance a trade leaves has the digits of its code, lies
\* within half a unit of the exact amount, lies above it on a tie, and is
\* left as it is by a second quantize.
C38_QuantizeHalfUpIdempotent ==
    \A p \in Procs :
        LET r == last[p]
            x == ExactAfter(r)
            q == r.after
            d == DecDist(q, x)
        IN  Moved(r)
            => /\ q.e = QExp(r.currency)
               /\ DecLe(DecAdd(d, d), D(1, QExp(r.currency)))
               /\ DecEq(DecAdd(d, d), D(1, QExp(r.currency))) => DecLt(x, q)
               /\ quantize_for_currency(r.currency, q) = q
               /\ quantize_for_currency(r.currency,
                                        quantize_for_currency(r.currency, x))
                     = quantize_for_currency(r.currency, x)

\* a trade has left a balance rounded up from a tie
C38_Witness ==
    \E p \in Procs :
        /\ Moved(last[p])
        /\ DecEq(DecAdd(DecDist(last[p].after, ExactAfter(last[p])),
                        DecDist(last[p].after, ExactAfter(last[p]))),
                 D(1, QExp(last[p].currency)))
        /\ DecLt(ExactAfter(last[p]), last[p].after)

-----------------------------------------------------------------------------
(* Properties of the order of steps in an update cycle.                    *)

\* the cycle of p has an adapter it has not called yet
AdapterPending(locals) == locals.clients # <<>>

ReturnedKeys(locals) ==
    UNION { locals.fetched[i].keys :
              i \in { j \in 1..Len(locals.fetched) : locals.fetched[j].status = "ok" } }

-----------------------------------------------------------------------------
(* Properties of the portfolio view.                                       *)

\* C40: after an update cycle has written the rate snapshot, show_portfolio
\* for a logged-in user completes and returns one row per wallet with a
\* total: the snapshot the updater writes never makes the view fail.
C40_ViewSurvivesUpdate ==
    \A p \in Procs :
        LET r == last[p] IN
        ( /\ pc[p] = "idle"
          /\ r.op = "show_portfolio" /\ r.uid # 0
          /\ "pairs" \in DOMAIN r.cache )
        => /\ r.status = "ok"
           /\ r.rows = Cardinality(DOMAIN WalletsOf(r.saved, r.uid))

=============================================================================
